---- MODULE Spec2Model ----
(***************************************************************************)
(* A model of the job orchestration pipeline of cloud-vibecoder:           *)
(*   backend/app/services/orchestration_service.py  (OrchestrationService) *)
(*   backend/app/services/coding_agent_main.py      (CodingAgent)          *)
(*   backend/app/services/vm_service.py             (VMService)            *)
(*   backend/app/services/repo_service.py           (RepositoryService)    *)
(*   backend/app/models/orchestration_model.py      (JobRequest, ...)      *)
(*                                                                         *)
(* A job run is a coroutine.  It can be interleaved with other operations  *)
(* only where it awaits an external call, so every action below is the     *)
(* code between two such awaits: it starts with the return (or the raise)  *)
(* of the awaited call and runs up to the next one.  _update_progress has  *)
(* no suspension point of its own and is part of the action calling it.    *)
(* Optional values are sequences of length 0 (None) or 1.                  *)
(***************************************************************************)
EXTENDS Naturals, Sequences, FiniteSets, TLC

\* ------------------------------------------------------------------ bounds
\* jobs the registry takes, and runs of execute_job per job
MaxJobs == 1
MaxRuns == 1
\* the sessions a direct caller of VMService creates
MaxSessions == 3
\* the jobs that are registered besides those that are run
MaxOtherJobs == 1

\* --------------------------------------------------------------- constants
\* relevant_files[:3] in CodingAgent._get_files_for_step
MaxFilesPerStep == 3
\* the token count one code-generation response reports
TokensPerCall == 1

JobIds == 1..MaxJobs
\* the ids create_job can hand out
RegistryIds == 1..(MaxJobs + MaxOtherJobs)

\* ---------------------------------------------------------------- JobStatus
PENDING == "pending"
INITIALIZING_VM == "initializing_vm"
CREATING_REPO == "creating_repo"
CLONING_REPO == "cloning_repo"
EXECUTING_AGENT == "executing_agent"
PUSHING_CHANGES == "pushing_changes"
COMPLETED == "completed"
FAILED == "failed"
CANCELLED == "cancelled"

JobStatus ==
    {PENDING, INITIALIZING_VM, CREATING_REPO, CLONING_REPO, EXECUTING_AGENT,
     PUSHING_CHANGES, COMPLETED, FAILED, CANCELLED}

\* the list tested by cancel_job
TerminalStatus == {COMPLETED, FAILED, CANCELLED}

StageStatus == JobStatus \ TerminalStatus

\* ------------------------------------------------------------------- paths
\* A path is its '/'-separated segments and whether it ends with '/'.  A
\* segment is a name and an extension; ext = "" is a segment without a '.'.
Seg(n, e) == [name |-> n, ext |-> e]
Path(s, sl) == [segs |-> s, slash |-> sl]

FileA == Path(<<Seg("a", "py")>>, FALSE)
FileB == Path(<<Seg("b", "py")>>, FALSE)
FileC == Path(<<Seg("c", "txt")>>, FALSE)
DirSrc == Path(<<Seg("src", "")>>, TRUE)
MainPy == Seg("main", "py")

\* path.endswith('/') or (path and '.' not in path.split('/')[-1])
LooksLikeDirectory(p) ==
    \/ p.slash
    \/ p.segs # <<>> /\ p.segs[Len(p.segs)].ext = ""

\* f"{base_path}/main.py" if base_path else "main.py", base_path = path.rstrip('/')
FixPath(p) ==
    IF LooksLikeDirectory(p) THEN Path(p.segs \o <<MainPy>>, FALSE) ELSE p

\* file_path.split('.')[-1].lower() selects the validator
Extension(p) == IF p.segs = <<>> THEN "" ELSE p.segs[Len(p.segs)].ext

CheckedExtensions == {"py", "js", "jsx", "ts", "tsx", "json"}

\* ------------------------------------------------------------------- plans
Change(p, i, pr) == [path |-> p, intent |-> i, priority |-> pr]
Plan(s, f) == [valid |-> TRUE, steps |-> s, files |-> f]

\* a plan dict ImplementationPlan(**dict) rejects
MalformedPlan == [valid |-> FALSE, steps |-> <<>>, files |-> <<>>]
PlanEmpty == Plan(<<>>, <<>>)
PlanOne == Plan(<<1>>, <<Change(FileA, "create", 1)>>)
PlanTwoSteps == Plan(<<1, 2>>, <<Change(DirSrc, "create", 1)>>)

\* the plans of the requests submitted to the pipeline
PipelinePlans == {MalformedPlan, PlanEmpty, PlanOne, PlanTwoSteps}

\* step 1 has no file of priority <= 1
PlanSkip == Plan(<<1, 2>>, <<Change(FileA, "create", 2)>>)
\* one step with two candidates
PlanTwoFiles ==
    Plan(<<1>>, <<Change(FileA, "modify", 1), Change(FileB, "create", 1)>>)
\* steps listed out of step_number order
PlanUnordered == Plan(<<2, 1>>, <<Change(FileA, "create", 1)>>)
\* more relevant files than a step takes, listed out of priority order, one
\* of them a directory path
PlanManyFiles ==
    Plan(<<2>>, <<Change(FileB, "create", 2), Change(FileA, "modify", 1),
                  Change(DirSrc, "create", 2), Change(FileC, "create", 1),
                  Change(FileB, "modify", 3)>>)

\* the plans given to the coding agent
AgentPlans ==
    {PlanOne, PlanTwoSteps, PlanSkip, PlanTwoFiles, PlanUnordered, PlanManyFiles}

\* the files a cloned repository may already contain
RepoContents == {{}, {FileA}}


\* ---------------------------------------------------------------- requests
\* The fields of a JobRequest body that the pipeline reads.  repo_url is None,
\* the empty string or a URL; new_repo_config is None or a NewRepoConfig.
RawRequests(plans) ==
    [repo_url : {"None", "", "url"},
     create_new_repo : BOOLEAN,
     new_repo_config : {"None", "config"},
     create_new_branch : BOOLEAN,
     new_branch_name : {"None", "feature"},
     push_changes : BOOLEAN,
     plan : plans]

\* Python truthiness of an Optional[str] / Optional[BaseModel] field
Truthy(v) == v # "None" /\ v # ""

\* model_post_init without the check of the new-repository branch
model_post_init_url_only(req) ==
    req.create_new_repo \/ Truthy(req.repo_url)

\* JobRequest.model_post_init: TRUE when construction succeeds, FALSE when it
\* raises ValueError.
model_post_init(req) ==
    IF req.create_new_repo
    THEN Truthy(req.new_repo_config)
    ELSE Truthy(req.repo_url)

\* ------------------------------------------------------------ coding agent
\* Stable insertion of index i into a list of indices sorted by priority.
RECURSIVE InsertByPriority(_, _, _)
InsertByPriority(files, sorted, i) ==
    IF sorted = <<>> THEN <<i>>
    ELSE IF files[Head(sorted)].priority <= files[i].priority
         THEN <<Head(sorted)>> \o InsertByPriority(files, Tail(sorted), i)
         ELSE <<i>> \o sorted

\* list.sort(key=lambda f: f.priority): a stable sort
RECURSIVE SortByPriority(_, _)
SortByPriority(files, idxs) ==
    IF idxs = <<>> THEN <<>>
    ELSE InsertByPriority(files,
                          SortByPriority(files, SubSeq(idxs, 1, Len(idxs) - 1)),
                          idxs[Len(idxs)])

Prefix(s, n) == SubSeq(s, 1, IF Len(s) < n THEN Len(s) ELSE n)

\* [f for f in self.plan.files_to_change if f.priority <= step.step_number],
\* as indices into files_to_change (the list holds the plan's own objects)
RelevantFiles(plan, step_number) ==
    SelectSeq([i \in 1..Len(plan.files) |-> i],
              LAMBDA i : plan.files[i].priority <= step_number)

\* The loop of _get_files_for_step that rewrites f.path in place.
FixedPlan(plan, step_number) ==
    [plan EXCEPT !.files =
        [i \in 1..Len(plan.files) |->
            IF plan.files[i].priority <= step_number
            THEN [plan.files[i] EXCEPT !.path = FixPath(@)]
            ELSE plan.files[i]]]

\* the candidates taken in plan order, without the sort by priority
GetFilesForStepUnsorted(plan, step_number) ==
    Prefix(RelevantFiles(plan, step_number), MaxFilesPerStep)

\* the candidates cut to the last three of the sorted list, not the first
GetFilesForStepLastThree(plan, step_number) ==
    LET sorted == SortByPriority(plan.files, RelevantFiles(plan, step_number))
    IN  IF Len(sorted) <= MaxFilesPerStep THEN sorted
        ELSE SubSeq(sorted, Len(sorted) - MaxFilesPerStep + 1, Len(sorted))

\* CodingAgent._get_files_for_step: the candidates of a step, as indices into
\* the (rewritten) plan.
GetFilesForStep(plan, step_number) ==
    Prefix(SortByPriority(plan.files, RelevantFiles(plan, step_number)),
           MaxFilesPerStep)

\* What happens to one candidate file: "raise" (reading or generating raises),
\* "invalid" (validation fails), "write_fail" (write_file returns False), "ok".
FileOutcomes == {"raise", "invalid", "write_fail", "ok"}

\* validate_syntax can fail only for an extension that has a validator
OutcomePossible(path, out) ==
    out = "invalid" => Extension(path) \in CheckedExtensions

\* the edit typed by the planned intent instead of by file_exists
ProcessFileTypeFromIntent(st, idx, out) ==
    LET fc == st.plan.files[idx]
        s1 == [st EXCEPT !.processed = Append(@, fc.path)]
        s2 == [s1 EXCEPT !.tokens = @ + TokensPerCall]
        s3 == [s2 EXCEPT !.validations =
                  Append(@, [success |-> out # "invalid", file_path |-> fc.path])]
        edit == [file_path |-> fc.path,
                 edit_type |-> IF fc.intent = "create" THEN "create" ELSE "modify",
                 original_content |-> IF fc.intent = "create" THEN <<>>
                                      ELSE <<"old">>]
    IN  CASE out = "raise" -> s1
          [] out = "invalid" -> s3
          [] out = "write_fail" -> s3
          [] OTHER ->
                [s3 EXCEPT !.tree = @ \cup {fc.path},
                           !.edits = Append(@, edit),
                           !.calls = Append(@, "write_file")]

\* content that failed validation is written all the same
ProcessFileWritesInvalid(st, idx, out) ==
    LET fc == st.plan.files[idx]
        file_exists == fc.path \in st.tree
        plan1 == IF fc.intent = "create" /\ file_exists
                 THEN [st.plan EXCEPT !.files[idx].intent = "modify"]
                 ELSE st.plan
        s1 == [st EXCEPT !.plan = plan1, !.processed = Append(@, fc.path)]
        s2 == [s1 EXCEPT !.tokens = @ + TokensPerCall]
        s3 == [s2 EXCEPT !.validations =
                  Append(@, [success |-> out # "invalid", file_path |-> fc.path])]
        edit == [file_path |-> fc.path,
                 edit_type |-> IF file_exists THEN "modify" ELSE "create",
                 original_content |-> IF file_exists THEN <<"old">> ELSE <<>>]
    IN  CASE out = "raise" -> s1
          [] out = "write_fail" -> s3
          [] OTHER ->
                [s3 EXCEPT !.tree = @ \cup {fc.path},
                           !.edits = Append(@, edit),
                           !.calls = Append(@, "write_file")]

\* The body of the per-file loop of execute_step for candidate idx.
\* tools.file_exists is "read_file succeeds": the path is in the working tree.
\* st = [plan, tree, edits, validations, tokens, calls, processed]; processed
\* is the log of the paths the loop announced ("Processing: <path>").
ProcessFile(st, idx, out) ==
    LET fc == st.plan.files[idx]
        file_exists == fc.path \in st.tree
        plan1 == IF fc.intent = "create" /\ file_exists
                 THEN [st.plan EXCEPT !.files[idx].intent = "modify"]
                 ELSE st.plan
        s1 == [st EXCEPT !.plan = plan1, !.processed = Append(@, fc.path)]
        s2 == [s1 EXCEPT !.tokens = @ + TokensPerCall]
        s3 == [s2 EXCEPT !.validations =
                  Append(@, [success |-> out # "invalid", file_path |-> fc.path])]
        edit == [file_path |-> fc.path,
                 edit_type |-> IF file_exists THEN "modify" ELSE "create",
                 original_content |-> IF file_exists THEN <<"old">> ELSE <<>>]
    IN  CASE out = "raise" -> s1
          [] out = "invalid" -> s3
          [] out = "write_fail" -> s3
          [] OTHER ->
                [s3 EXCEPT !.tree = @ \cup {fc.path},
                           !.edits = Append(@, edit),
                           !.calls = Append(@, "write_file")]

\* the loop over the candidates left at the first file that is not written
RECURSIVE ProcessFilesStopOnFailure(_, _, _, _)
ProcessFilesStopOnFailure(st, cands, outs, k) ==
    IF k > Len(cands) THEN st
    ELSE IF outs[k] # "ok" THEN ProcessFile(st, cands[k], outs[k])
    ELSE ProcessFilesStopOnFailure(ProcessFile(st, cands[k], outs[k]),
                                   cands, outs, k + 1)

RECURSIVE ProcessFiles(_, _, _, _)
ProcessFiles(st, cands, outs, k) ==
    IF k > Len(cands) THEN st
    ELSE ProcessFiles(ProcessFile(st, cands[k], outs[k]), cands, outs, k + 1)

\* a step without candidates reported as failed
StepStatusFailedWhenNoFiles(edits, files_for_step) ==
    IF edits # <<>> THEN "completed" ELSE "failed"

\* The status execute_step gives the step.
StepStatus(edits, files_for_step) ==
    IF edits # <<>> THEN "completed"
    ELSE IF files_for_step # <<>> THEN "failed"
    ELSE "skipped"


\* ------------------------------------------------------------------- state
VARIABLES
    jobs,             \* OrchestrationService.jobs: job id -> Job
    run,              \* per job id: the locals of its execute_job coroutine
    active_sessions,  \* VMService.active_sessions (the session ids)
    created_sessions, \* the session ids create_session has returned so far
    last              \* the last call made on the service and what it returned

vars == <<jobs, run, active_sessions, created_sessions, last>>

None == <<>>
Some(v) == <<v>>

\* JobProgress(status, progress_percentage, current_step=status.value)
JobProgress(status, pct, step) ==
    [status |-> status, progress_percentage |-> pct, current_step |-> step]

\* a job that is registered as already started
NewJobStarted(job_id, req) ==
    [job_id |-> job_id, request |-> req,
     progress |-> JobProgress(INITIALIZING_VM, 10, None), result |-> None]

\* Job(job_id, request, progress=JobProgress(PENDING, 0)), result None
NewJob(job_id, req) ==
    [job_id |-> job_id, request |-> req,
     progress |-> JobProgress(PENDING, 0, None), result |-> None]

\* The locals of execute_job before its first run.  n counts the runs of the
\* job and writes the assignments to job.result; tree, head and git are the
\* working tree, the checked-out branch and the commits of the clone, cloned
\* the files the clone brought; stages is the log of the statuses the run
\* passed to _update_progress.
IdleRun ==
    [pc |-> "idle", n |-> 0, writes |-> 0, stages |-> <<>>, cloned |-> {},
     agent_result |-> None, push_result |-> None,
     remote_url |-> "None", push_cmd |-> None, push_error |-> None,
     vm_session_id |-> None, repo_path |-> None, repo_url |-> "None",
     branch_name |-> "main", created_new_repo |-> FALSE,
     plan |-> PlanEmpty, step |-> 0, results |-> <<>>, commits |-> <<>>,
     tokens |-> 0, pushed |-> FALSE, result |-> None, failed_from |-> None,
     tree |-> {}, head |-> "None", git |-> <<>>, calls |-> <<>>]

Call(op, id, ret, req) == [op |-> op, id |-> id, ret |-> ret, req |-> req]

Init ==
    /\ jobs = <<>>
    /\ run = [j \in RegistryIds |-> IdleRun]
    /\ active_sessions = {}
    /\ created_sessions = {}
    /\ last = Call("none", 0, "None", None)

\* ------------------------------------------------- orchestrator, pure parts
\* A context c = [job, run] is the Job and the locals of one execute_job.

\* _update_progress that leaves a cancelled job's progress alone
UpdateProgressUnlessCancelled(c, status, pct) ==
    IF c.job.progress.status = CANCELLED THEN c
    ELSE [c EXCEPT !.job.progress = JobProgress(status, pct, Some(status)),
                   !.run.stages = Append(@, status)]

\* OrchestrationService._update_progress (job_id is registered in every call)
UpdateProgress(c, status, pct) ==
    [c EXCEPT !.job.progress = JobProgress(status, pct, Some(status)),
              !.run.stages = Append(@, status)]

\* the coroutine awaits the external call op
Await(c, op) ==
    [c EXCEPT !.run.calls = Append(@, op), !.run.pc = op]

\* the if/elif chain of the except block of execute_job
ErrorStage(current_status) ==
    CASE current_status = INITIALIZING_VM -> "vm_initialization"
      [] current_status = CREATING_REPO -> "repository_creation"
      [] current_status = CLONING_REPO -> "repository_cloning"
      [] current_status = EXECUTING_AGENT -> "agent_execution"
      [] current_status = PUSHING_CHANGES -> "pushing_changes"
      [] OTHER -> "unknown"

\* cleanup on the success path only, in place of the finally block
FinallyOnSuccessOnly(c) ==
    IF c.run.vm_session_id # None /\ c.job.progress.status # FAILED
    THEN Await(c, "destroy_session")
    ELSE [c EXCEPT !.run.pc = "returned"]

\* the finally block: destroy the session if one was created, then return
Finally(c) ==
    IF c.run.vm_session_id # None
    THEN Await(c, "destroy_session")
    ELSE [c EXCEPT !.run.pc = "returned"]

\* job.result = result
WriteResult(c, result) ==
    [c EXCEPT !.job.result = Some(result),
              !.run.result = Some(result),
              !.run.writes = @ + 1]

\* the failed result is written and the progress is left as it was
FailWithoutProgress(c) ==
    LET current_status == c.job.progress.status
        result ==
            [status |-> FAILED, success |-> FALSE,
             vm_session_id |-> c.run.vm_session_id,
             repo_url |-> c.run.repo_url, repo_path |-> c.run.repo_path,
             branch_name |-> c.run.branch_name,
             created_new_repo |-> c.run.created_new_repo,
             files_changed |-> 0, commits_created |-> 0, total_edits |-> 0,
             tokens_used |-> 0, error_message |-> Some("error"),
             error_stage |-> Some(ErrorStage(current_status)),
             commit_shas |-> <<>>, pushed |-> FALSE]
        c1 == [c EXCEPT !.run.failed_from = Some(current_status)]
    IN  Finally(WriteResult(c1, result))

\* the failed result reports what the run did before it failed
FailReportsCounts(c) ==
    LET current_status == c.job.progress.status
        result ==
            [status |-> FAILED, success |-> FALSE,
             vm_session_id |-> c.run.vm_session_id,
             repo_url |-> c.run.repo_url, repo_path |-> c.run.repo_path,
             branch_name |-> c.run.branch_name,
             created_new_repo |-> c.run.created_new_repo,
             files_changed |-> Cardinality(c.run.tree \ c.run.cloned),
             commits_created |-> Len(c.run.commits), total_edits |-> 0,
             tokens_used |-> c.run.tokens, error_message |-> Some("error"),
             error_stage |-> Some(ErrorStage(current_status)),
             commit_shas |-> c.run.commits, pushed |-> FALSE]
        c1 == [c EXCEPT !.run.failed_from = Some(current_status)]
    IN  Finally(WriteResult(UpdateProgress(c1, FAILED, 0), result))

\* the except block of execute_job
Fail(c) ==
    LET current_status == c.job.progress.status
        result ==
            [status |-> FAILED, success |-> FALSE,
             vm_session_id |-> c.run.vm_session_id,
             repo_url |-> c.run.repo_url, repo_path |-> c.run.repo_path,
             branch_name |-> c.run.branch_name,
             created_new_repo |-> c.run.created_new_repo,
             files_changed |-> 0, commits_created |-> 0, total_edits |-> 0,
             tokens_used |-> 0, error_message |-> Some("error"),
             error_stage |-> Some(ErrorStage(current_status)),
             commit_shas |-> <<>>, pushed |-> FALSE]
        c1 == [c EXCEPT !.run.failed_from = Some(current_status)]
    IN  Finally(WriteResult(UpdateProgress(c1, FAILED, 0), result))

SeqSum(s, f(_)) ==
    LET RECURSIVE Sum(_)
        Sum(k) == IF k = 0 THEN 0 ELSE Sum(k - 1) + f(s[k])
    IN  Sum(Len(s))

\* set(edit.file_path for r in results for edit in r.edits)
EditedPaths(results) ==
    UNION {{results[i].edits[k].file_path : k \in 1..Len(results[i].edits)} :
             i \in 1..Len(results)}

\* the files counted once per edit instead of once per path
AgentResultCountsEdits(results, commits, total_tokens) ==
    [success |-> \A i \in 1..Len(results) : results[i].status = "completed",
     steps_completed |-> results,
     total_edits |-> SeqSum(results, LAMBDA r : Len(r.edits)),
     total_files_changed |-> SeqSum(results, LAMBDA r : Len(r.edits)),
     commits_created |-> commits,
     total_tokens_used |-> total_tokens]

\* The AgentExecutionResult built at the end of execute_plan.
AgentResult(results, commits, total_tokens) ==
    [success |-> \A i \in 1..Len(results) : results[i].status = "completed",
     steps_completed |-> results,
     total_edits |-> SeqSum(results, LAMBDA r : Len(r.edits)),
     total_files_changed |-> Cardinality(EditedPaths(results)),
     commits_created |-> commits,
     total_tokens_used |-> total_tokens]

\* the completed result with files_changed taken from total_edits
CompleteCountsEdits(c, agent_result) ==
    LET result ==
            [status |-> COMPLETED, success |-> TRUE,
             vm_session_id |-> c.run.vm_session_id,
             repo_url |-> c.run.repo_url, repo_path |-> c.run.repo_path,
             branch_name |-> c.run.branch_name,
             created_new_repo |-> c.run.created_new_repo,
             files_changed |-> agent_result.total_edits,
             commits_created |-> Len(agent_result.commits_created),
             total_edits |-> agent_result.total_edits,
             tokens_used |-> agent_result.total_tokens_used,
             error_message |-> None, error_stage |-> None,
             commit_shas |-> agent_result.commits_created,
             pushed |-> c.run.pushed]
    IN  Finally(WriteResult(UpdateProgress(c, COMPLETED, 100), result))

\* "Stage 5: Complete" of execute_job
Complete(c, agent_result) ==
    LET result ==
            [status |-> COMPLETED, success |-> TRUE,
             vm_session_id |-> c.run.vm_session_id,
             repo_url |-> c.run.repo_url, repo_path |-> c.run.repo_path,
             branch_name |-> c.run.branch_name,
             created_new_repo |-> c.run.created_new_repo,
             files_changed |-> agent_result.total_files_changed,
             commits_created |-> Len(agent_result.commits_created),
             total_edits |-> agent_result.total_edits,
             tokens_used |-> agent_result.total_tokens_used,
             error_message |-> None, error_stage |-> None,
             commit_shas |-> agent_result.commits_created,
             pushed |-> c.run.pushed]
    IN  Finally(WriteResult(UpdateProgress(c, COMPLETED, 100), result))

\* the push condition without "and agent_result.commits_created"
AfterAgentPushWithoutCommits(c0) ==
    LET agent_result == AgentResult(c0.run.results, c0.run.commits, c0.run.tokens)
        c == [c0 EXCEPT !.run.agent_result = Some(agent_result)]
    IN  IF ~agent_result.success THEN Fail(c)
        ELSE IF c.job.request.push_changes
        THEN Await(UpdateProgress(c, PUSHING_CHANGES, 80), "push_branch")
        ELSE Complete(c, agent_result)

\* a cancelled job is not pushed: the run stops after the agent
AfterAgentStopsWhenCancelled(c0) ==
    LET agent_result == AgentResult(c0.run.results, c0.run.commits, c0.run.tokens)
        c == [c0 EXCEPT !.run.agent_result = Some(agent_result)]
    IN  IF ~agent_result.success \/ c.job.progress.status = CANCELLED
        THEN Fail(c)
        ELSE IF c.job.request.push_changes /\ agent_result.commits_created # <<>>
        THEN Await(UpdateProgress(c, PUSHING_CHANGES, 80), "push_branch")
        ELSE Complete(c, agent_result)

\* execute_job from the return of agent.execute_plan() to its next await
AfterAgent(c0) ==
    LET agent_result == AgentResult(c0.run.results, c0.run.commits, c0.run.tokens)
        c == [c0 EXCEPT !.run.agent_result = Some(agent_result)]
    IN  IF ~agent_result.success THEN Fail(c)
        ELSE IF c.job.request.push_changes /\ agent_result.commits_created # <<>>
        THEN Await(UpdateProgress(c, PUSHING_CHANGES, 80), "push_branch")
        ELSE Complete(c, agent_result)

\* "Stage 3: Execute Coding Agent" up to the first await of execute_plan
EnterAgent(c) ==
    LET c1 == UpdateProgress(c, EXECUTING_AGENT, 40)
        plan == c.job.request.plan
        c2 == [c1 EXCEPT !.run.plan = plan, !.run.step = 1]
    IN  IF ~plan.valid THEN Fail(c1)
        ELSE IF plan.steps = <<>> THEN AfterAgent(c2)
        ELSE [c2 EXCEPT !.run.pc = "execute_step"]

\* the clone is started without reporting the stage
EnterCloneNoProgress(c) ==
    Await(c, "clone_repository")

\* "Stage 3: Clone Repository" up to the await of clone_repository
EnterClone(c) ==
    Await(UpdateProgress(c, CLONING_REPO, 25), "clone_repository")

\* What create_commit does: "ok", "no_sha" (the commit is made but rev-parse
\* fails, sha = "unknown", modelled as 0), "fail" (create_commit raises and
\* _create_commit_for_step returns None).
CommitOutcomes == {"ok", "no_sha", "fail"}

\* CodingAgent.execute_step: the candidates of the step are processed in
\* order, outs giving what happens to each.  r is the run; the value is the
\* state [plan, tree, edits, validations, tokens, calls, processed] after the
\* loop.
ExecuteStep(r, outs) ==
    LET step_number == r.plan.steps[r.step]
        plan1 == FixedPlan(r.plan, step_number)
        files_for_step == GetFilesForStep(plan1, step_number)
        st0 == [plan |-> plan1, tree |-> r.tree, edits |-> <<>>,
                validations |-> <<>>, tokens |-> 0, calls |-> r.calls,
                processed |-> <<>>]
    IN  ProcessFiles(st0, files_for_step, outs, 1)

\* the iteration without "step_result.commit_sha = commit.sha"
RecordStepShaNotRecorded(r, st, commit_out) ==
    LET step_number == r.plan.steps[r.step]
        files_for_step == GetFilesForStep(st.plan, step_number)
        status == StepStatus(st.edits, files_for_step)
        commits_it == status = "completed" /\ st.edits # <<>>
        sha == IF commit_out = "ok" THEN Len(r.git) + 1 ELSE 0
        committed == commits_it /\ commit_out # "fail"
        step_result ==
            [step_number |-> step_number, status |-> status,
             edits |-> st.edits, validations |-> st.validations,
             llm_tokens_used |-> st.tokens,
             commit_sha |-> None,
             files_for_step |-> files_for_step,
             candidate_paths |-> [k \in 1..Len(files_for_step) |->
                                     st.plan.files[files_for_step[k]].path],
             processed |-> st.processed]
        files == [k \in 1..Len(st.edits) |-> st.edits[k].file_path]
    IN  [r EXCEPT
            !.plan = st.plan,
            !.tree = st.tree,
            !.calls = IF commits_it THEN Append(st.calls, "create_commit")
                      ELSE st.calls,
            !.results = Append(@, step_result),
            !.tokens = @ + st.tokens,
            !.commits = IF committed THEN Append(@, sha) ELSE @,
            !.git = IF committed
                    THEN Append(@, [sha |-> sha, files |-> files,
                                    step |-> step_number])
                    ELSE @,
            !.step = @ + 1]

\* a commit is attempted after every step, whatever its status
RecordStepCommitsEveryStep(r, st, commit_out) ==
    LET step_number == r.plan.steps[r.step]
        files_for_step == GetFilesForStep(st.plan, step_number)
        status == StepStatus(st.edits, files_for_step)
        commits_it == TRUE
        sha == IF commit_out = "ok" THEN Len(r.git) + 1 ELSE 0
        committed == commits_it /\ commit_out # "fail"
        step_result ==
            [step_number |-> step_number, status |-> status,
             edits |-> st.edits, validations |-> st.validations,
             llm_tokens_used |-> st.tokens,
             commit_sha |-> IF committed THEN Some(sha) ELSE None,
             files_for_step |-> files_for_step,
             candidate_paths |-> [k \in 1..Len(files_for_step) |->
                                     st.plan.files[files_for_step[k]].path],
             processed |-> st.processed]
        files == [k \in 1..Len(st.edits) |-> st.edits[k].file_path]
    IN  [r EXCEPT
            !.plan = st.plan,
            !.tree = st.tree,
            !.calls = IF commits_it THEN Append(st.calls, "create_commit")
                      ELSE st.calls,
            !.results = Append(@, step_result),
            !.tokens = @ + st.tokens,
            !.commits = IF committed THEN Append(@, sha) ELSE @,
            !.git = IF committed
                    THEN Append(@, [sha |-> sha, files |-> files,
                                    step |-> step_number])
                    ELSE @,
            !.step = @ + 1]

\* One iteration of the loop of execute_plan after execute_step returned st:
\* the step result is appended and its edits are committed.  Besides the
\* fields of AgentStepResult the step result keeps what execute_step logged:
\* the candidates ("Files to modify", as indices into files_to_change and as
\* paths) and the paths processed.
\* The except branch of the loop (the only break) needs execute_step or
\* _create_commit_for_step to raise; both catch every Exception themselves.
RecordStep(r, st, commit_out) ==
    LET step_number == r.plan.steps[r.step]
        files_for_step == GetFilesForStep(st.plan, step_number)
        status == StepStatus(st.edits, files_for_step)
        commits_it == status = "completed" /\ st.edits # <<>>
        sha == IF commit_out = "ok" THEN Len(r.git) + 1 ELSE 0
        committed == commits_it /\ commit_out # "fail"
        step_result ==
            [step_number |-> step_number, status |-> status,
             edits |-> st.edits, validations |-> st.validations,
             llm_tokens_used |-> st.tokens,
             commit_sha |-> IF committed THEN Some(sha) ELSE None,
             files_for_step |-> files_for_step,
             candidate_paths |-> [k \in 1..Len(files_for_step) |->
                                     st.plan.files[files_for_step[k]].path],
             processed |-> st.processed]
        files == [k \in 1..Len(st.edits) |-> st.edits[k].file_path]
    IN  [r EXCEPT
            !.plan = st.plan,
            !.tree = st.tree,
            !.calls = IF commits_it THEN Append(st.calls, "create_commit")
                      ELSE st.calls,
            !.results = Append(@, step_result),
            !.tokens = @ + st.tokens,
            !.commits = IF committed THEN Append(@, sha) ELSE @,
            !.git = IF committed
                    THEN Append(@, [sha |-> sha, files |-> files,
                                    step |-> step_number])
                    ELSE @,
            !.step = @ + 1]

\* ----------------------------------------------------------------- actions
Ctx(j) == [job |-> jobs[j], run |-> run[j]]

\* store what a segment of execute_job(j) left behind
Commit(j, c) ==
    \E v \in {c} :
        /\ jobs' = [jobs EXCEPT ![j] = v.job]
        /\ run' = [run EXCEPT ![j] = v.run]
        /\ last' = Call("execute_job", j, "running", None)

Running(j) == j \in DOMAIN jobs /\ run[j].pc \notin {"idle", "returned"}

\* POST /jobs/create (and /execute): the body is parsed into a JobRequest,
\* whose model_post_init may raise, and only then create_job is called, which
\* registers the job under a fresh id.
SubmitJob(req) ==
    /\ Len(jobs) < MaxJobs
    /\ IF model_post_init(req)
       THEN /\ jobs' = Append(jobs, NewJob(Len(jobs) + 1, req))
            /\ last' = Call("create_job", Len(jobs) + 1, "Job", Some(req))
       ELSE /\ jobs' = jobs
            /\ last' = Call("create_job", 0, "ValueError", Some(req))
    /\ UNCHANGED <<run, active_sessions, created_sessions>>

\* cancel_job without the test of the terminal statuses
CancelJobAnyStatus(id) ==
    /\ IF id \notin DOMAIN jobs
       THEN /\ jobs' = jobs
            /\ last' = Call("cancel_job", id, "False", None)
       ELSE /\ jobs' = [jobs EXCEPT ![id] =
                           UpdateProgress([job |-> @, run |-> run[id]],
                                          CANCELLED, 0).job]
            /\ last' = Call("cancel_job", id, "True", None)
    /\ UNCHANGED <<run, active_sessions, created_sessions>>

\* OrchestrationService.cancel_job
CancelJob(id) ==
    /\ IF id \notin DOMAIN jobs
       THEN /\ jobs' = jobs
            /\ last' = Call("cancel_job", id, "False", None)
       ELSE IF jobs[id].progress.status \in TerminalStatus
       THEN /\ jobs' = jobs
            /\ last' = Call("cancel_job", id, "False", None)
       ELSE /\ jobs' = [jobs EXCEPT ![id] =
                           UpdateProgress([job |-> @, run |-> run[id]],
                                          CANCELLED, 0).job]
            /\ last' = Call("cancel_job", id, "True", None)
    /\ UNCHANGED <<run, active_sessions, created_sessions>>

\* execute_job of an id that is not registered
ExecuteUnknownJob(id) ==
    /\ id \notin DOMAIN jobs
    /\ last' = Call("execute_job", id, "ValueError", None)
    /\ UNCHANGED <<jobs, run, active_sessions, created_sessions>>

\* execute_job(j) from its entry to the await of create_session.  A job is run
\* again only after its previous run has returned.
StartJob(j) ==
    /\ j \in DOMAIN jobs
    /\ ~Running(j)
    /\ run[j].n < MaxRuns
    /\ LET r == [IdleRun EXCEPT !.n = run[j].n + 1,
                                !.writes = run[j].writes,
                                !.repo_url = jobs[j].request.repo_url]
           c == UpdateProgress([job |-> jobs[j], run |-> r], INITIALIZING_VM, 10)
       IN  Commit(j, Await(c, "create_session"))
    /\ UNCHANGED <<active_sessions, created_sessions>>

\* a create_session that raises is logged and the run goes on to the clone
CreateSessionReturnsContinues(j, ok) ==
    /\ Running(j) /\ run[j].pc = "create_session"
    /\ IF ok
       THEN LET session_id == <<j, run[j].n>>
                c == [Ctx(j) EXCEPT !.run.vm_session_id = Some(session_id)]
            IN  /\ active_sessions' = active_sessions \cup {session_id}
                /\ created_sessions' = created_sessions \cup {session_id}
                /\ IF c.job.request.create_new_repo
                   THEN Commit(j, Await(UpdateProgress(c, CREATING_REPO, 15),
                                        "create_repository"))
                   ELSE Commit(j, EnterClone(c))
       ELSE /\ Commit(j, EnterClone(Ctx(j)))
            /\ UNCHANGED <<active_sessions, created_sessions>>

\* create_session returns and the repository is created whatever the request
CreateSessionReturnsAlwaysCreates(j, ok) ==
    /\ Running(j) /\ run[j].pc = "create_session"
    /\ IF ok
       THEN LET session_id == <<j, run[j].n>>
                c == [Ctx(j) EXCEPT !.run.vm_session_id = Some(session_id)]
            IN  /\ active_sessions' = active_sessions \cup {session_id}
                /\ created_sessions' = created_sessions \cup {session_id}
                /\ Commit(j, Await(UpdateProgress(c, CREATING_REPO, 15),
                                   "create_repository"))
       ELSE /\ Commit(j, Fail(Ctx(j)))
            /\ UNCHANGED <<active_sessions, created_sessions>>

\* VMService.create_session returns a session or raises; execute_job goes on
\* to the await of create_repository or of clone_repository.
CreateSessionReturns(j, ok) ==
    /\ Running(j) /\ run[j].pc = "create_session"
    /\ IF ok
       THEN LET session_id == <<j, run[j].n>>
                c == [Ctx(j) EXCEPT !.run.vm_session_id = Some(session_id)]
            IN  /\ active_sessions' = active_sessions \cup {session_id}
                /\ created_sessions' = created_sessions \cup {session_id}
                /\ IF c.job.request.create_new_repo
                   THEN Commit(j, Await(UpdateProgress(c, CREATING_REPO, 15),
                                        "create_repository"))
                   ELSE Commit(j, EnterClone(c))
       ELSE /\ Commit(j, Fail(Ctx(j)))
            /\ UNCHANGED <<active_sessions, created_sessions>>

\* a create_repository that reports failure is not noticed
CreateRepositoryReturnsUnchecked(j, out) ==
    /\ Running(j) /\ run[j].pc = "create_repository"
    /\ IF out # "raise"
       THEN Commit(j, EnterClone([Ctx(j) EXCEPT
                                     !.run.repo_url = "html_url",
                                     !.run.branch_name = "default_branch",
                                     !.run.created_new_repo = (out = "ok")]))
       ELSE Commit(j, Fail(Ctx(j)))
    /\ UNCHANGED <<active_sessions, created_sessions>>

\* GitHubService.create_repository returns success, returns failure (then
\* execute_job raises) or raises.
CreateRepoOutcomes == {"ok", "unsuccessful", "raise"}

CreateRepositoryReturns(j, out) ==
    /\ Running(j) /\ run[j].pc = "create_repository"
    /\ IF out = "ok"
       THEN Commit(j, EnterClone([Ctx(j) EXCEPT
                                     !.run.repo_url = "html_url",
                                     !.run.branch_name = "default_branch",
                                     !.run.created_new_repo = TRUE]))
       ELSE Commit(j, Fail(Ctx(j)))
    /\ UNCHANGED <<active_sessions, created_sessions>>

\* RepositoryService.clone_repository: "ok" clones the requested branch,
\* "fallback" the plain clone after the branch was not found (the remote's
\* HEAD is checked out: the default branch, which for a repository the run
\* created is create_result.default_branch), "fail" raises.
CloneOutcomes == {"ok", "fallback", "fail"}

\* the branch a clone checks out
ClonedHead(r, out) ==
    IF out = "ok" \/ r.created_new_repo THEN r.branch_name ELSE "origin_head"

\* the branch is created whenever create_new_branch is set
CloneRepositoryReturnsAlwaysBranches(j, out, contents) ==
    /\ Running(j) /\ run[j].pc = "clone_repository"
    /\ IF out = "fail"
       THEN Commit(j, Fail(Ctx(j)))
       ELSE LET c == [Ctx(j) EXCEPT
                         !.run.repo_path = Some("local_path"),
                         !.run.tree = contents,
                         !.run.cloned = contents,
                         !.run.remote_url = "auth_url",
                         !.run.head = ClonedHead(run[j], out)]
                request == c.job.request
            IN  IF request.create_new_branch
                THEN Commit(j, Await(c, "create_branch"))
                ELSE Commit(j, EnterAgent(c))
    /\ UNCHANGED <<active_sessions, created_sessions>>

CloneRepositoryReturns(j, out, contents) ==
    /\ Running(j) /\ run[j].pc = "clone_repository"
    /\ IF out = "fail"
       THEN Commit(j, Fail(Ctx(j)))
       ELSE LET c == [Ctx(j) EXCEPT
                         !.run.repo_path = Some("local_path"),
                         !.run.tree = contents,
                         !.run.cloned = contents,
                         !.run.remote_url = "auth_url",
                         !.run.head = ClonedHead(run[j], out)]
                request == c.job.request
            IN  IF request.create_new_branch /\ ~c.run.created_new_repo
                THEN Commit(j, Await(c, "create_branch"))
                ELSE Commit(j, EnterAgent(c))
    /\ UNCHANGED <<active_sessions, created_sessions>>

\* request.new_branch_name or f"vibecoder-{job_id[:8]}"
NewBranchName(request) ==
    IF Truthy(request.new_branch_name) THEN request.new_branch_name
    ELSE "vibecoder-job_id"

\* RepositoryService.create_branch returns True or False (never raises);
\* execute_job ignores the value.
CreateBranchReturns(j, ok) ==
    /\ Running(j) /\ run[j].pc = "create_branch"
    /\ LET new_branch == NewBranchName(jobs[j].request)
           c == [Ctx(j) EXCEPT
                    !.run.branch_name = new_branch,
                    !.run.head = IF ok THEN new_branch ELSE @]
       IN  Commit(j, EnterAgent(c))
    /\ UNCHANGED <<active_sessions, created_sessions>>

\* The awaits of one step of the plan return; after the last step execute_plan
\* returns and execute_job goes on to its next await.
StepReturns(j) ==
    /\ Running(j) /\ run[j].pc = "execute_step"
    /\ LET r == run[j]
           step_number == r.plan.steps[r.step]
           plan1 == FixedPlan(r.plan, step_number)
           cands == GetFilesForStep(plan1, step_number)
       IN  \E outs \in [1..Len(cands) -> FileOutcomes],
              commit_out \in CommitOutcomes :
              /\ \A k \in 1..Len(cands) :
                    OutcomePossible(plan1.files[cands[k]].path, outs[k])
              /\ \E st \in {ExecuteStep(r, outs)} :
                 \E r1 \in {RecordStep(r, st, commit_out)} :
                 \E c \in {[job |-> jobs[j], run |-> r1]} :
                    IF r1.step > Len(r1.plan.steps)
                    THEN Commit(j, AfterAgent(c))
                    ELSE Commit(j, c)
    /\ UNCHANGED <<active_sessions, created_sessions>>

\* RepositoryService._parse_repo_url: TRUE when one of its two patterns is
\* found in the URL, FALSE when it raises ValueError.  The patterns want
\* "https://github.com/" or "git@github.com:"; the URL clone_repository
\* clones from, "https://<token>@github.com/owner/repo.git" ("auth_url"),
\* has neither.
ParseRepoUrl(repo_url) == repo_url \in {"url", "html_url"}

\* RepositoryService.push_branch, for the URL of the remote, the outcome of
\* "git remote get-url" (url_ok: it succeeded with output) and of "git push"
\* (push_ok).  The value is what it returns and, in push_cmd, whether the
\* push command ran and succeeded.  When the lookup succeeded the URL is
\* parsed, and a URL that does not parse raises into the except before the
\* push; when the lookup failed, owner and repo_name are unbound where the
\* success result is built, and the except returns success=False after a
\* push that worked.  It never raises.
PushBranch(original_url, url_ok, push_ok) ==
    IF url_ok /\ ~ParseRepoUrl(original_url)
    THEN [success |-> FALSE, push_cmd |-> None, error |-> Some("ValueError")]
    ELSE IF ~push_ok
    THEN [success |-> FALSE, push_cmd |-> Some(FALSE),
          error |-> Some("result.error")]
    ELSE IF url_ok
    THEN [success |-> TRUE, push_cmd |-> Some(TRUE), error |-> None]
    ELSE [success |-> FALSE, push_cmd |-> Some(TRUE),
          error |-> Some("UnboundLocalError")]

\* a push that reports failure raises out of the push stage
PushBranchReturnsFatal(j, url_ok, push_ok) ==
    /\ Running(j) /\ run[j].pc = "push_branch"
    /\ LET push_result == PushBranch(run[j].remote_url, url_ok, push_ok)
           c == [Ctx(j) EXCEPT !.run.pushed = push_result.success,
                                !.run.push_result = Some(push_result.success),
                                !.run.push_cmd = push_result.push_cmd,
                                !.run.push_error = push_result.error]
       IN  IF c.run.pushed
           THEN Commit(j, Complete(c, AgentResult(c.run.results, c.run.commits,
                                                  c.run.tokens)))
           ELSE Commit(j, Fail(c))
    /\ UNCHANGED <<active_sessions, created_sessions>>

PushBranchReturns(j, url_ok, push_ok) ==
    /\ Running(j) /\ run[j].pc = "push_branch"
    /\ LET push_result == PushBranch(run[j].remote_url, url_ok, push_ok)
           c == [Ctx(j) EXCEPT !.run.pushed = push_result.success,
                                !.run.push_result = Some(push_result.success),
                                !.run.push_cmd = push_result.push_cmd,
                                !.run.push_error = push_result.error]
       IN  Commit(j, Complete(c, AgentResult(c.run.results, c.run.commits,
                                             c.run.tokens)))
    /\ UNCHANGED <<active_sessions, created_sessions>>

\* a teardown that fails marks the job failed
DestroySessionReturnsFailsJob(j, kill_ok) ==
    /\ Running(j) /\ run[j].pc = "destroy_session"
    /\ LET session_id == run[j].vm_session_id[1]
       IN  active_sessions' =
               IF session_id \in active_sessions /\ kill_ok
               THEN active_sessions \ {session_id}
               ELSE active_sessions
    /\ UNCHANGED created_sessions
    /\ IF kill_ok
       THEN Commit(j, [Ctx(j) EXCEPT !.run.pc = "returned"])
       ELSE Commit(j, [UpdateProgress(Ctx(j), FAILED, 0)
                          EXCEPT !.run.pc = "returned"])

\* the teardown of one run ends every active session
DestroySessionReturnsDestroysAll(j, kill_ok) ==
    /\ Running(j) /\ run[j].pc = "destroy_session"
    /\ active_sessions' = IF kill_ok THEN {} ELSE active_sessions
    /\ UNCHANGED created_sessions
    /\ Commit(j, [Ctx(j) EXCEPT !.run.pc = "returned"])

\* VMService.destroy_session: False when the id is not active or kill()
\* raises (the session then stays active); execute_job returns its result.
DestroySessionReturns(j, kill_ok) ==
    /\ Running(j) /\ run[j].pc = "destroy_session"
    /\ LET session_id == run[j].vm_session_id[1]
       IN  active_sessions' =
               IF session_id \in active_sessions /\ kill_ok
               THEN active_sessions \ {session_id}
               ELSE active_sessions
    /\ UNCHANGED created_sessions
    /\ Commit(j, [Ctx(j) EXCEPT !.run.pc = "returned"])

AnyId == 0..MaxJobs

NextOver(requests) ==
    \/ \E req \in requests : SubmitJob(req)
    \/ \E id \in AnyId : CancelJob(id)
    \/ \E id \in AnyId : ExecuteUnknownJob(id)
    \/ \E j \in JobIds : StartJob(j)
    \/ \E j \in JobIds, ok \in BOOLEAN : CreateSessionReturns(j, ok)
    \/ \E j \in JobIds, out \in CreateRepoOutcomes : CreateRepositoryReturns(j, out)
    \/ \E j \in JobIds, out \in CloneOutcomes, contents \in RepoContents :
          CloneRepositoryReturns(j, out, contents)
    \/ \E j \in JobIds, ok \in BOOLEAN : CreateBranchReturns(j, ok)
    \/ \E j \in JobIds : StepReturns(j)
    \/ \E j \in JobIds, url_ok \in BOOLEAN, push_ok \in BOOLEAN :
          PushBranchReturns(j, url_ok, push_ok)
    \/ \E j \in JobIds, kill_ok \in BOOLEAN : DestroySessionReturns(j, kill_ok)

Next == NextOver(RawRequests(PipelinePlans))

Spec == Init /\ [][Next]_vars


\* The awaited calls of execute_job(j) return: its steps.
RunStep(j) ==
    \/ \E ok \in BOOLEAN : CreateSessionReturns(j, ok)
    \/ \E out \in CreateRepoOutcomes : CreateRepositoryReturns(j, out)
    \/ \E out \in CloneOutcomes, contents \in RepoContents :
          CloneRepositoryReturns(j, out, contents)
    \/ \E ok \in BOOLEAN : CreateBranchReturns(j, ok)
    \/ StepReturns(j)
    \/ \E url_ok \in BOOLEAN, push_ok \in BOOLEAN :
          PushBranchReturns(j, url_ok, push_ok)
    \/ \E kill_ok \in BOOLEAN : DestroySessionReturns(j, kill_ok)

\* The requests of the runs checked for termination: every combination of the
\* flags execute_job branches on, with each plan of the pipeline.
FairRequests ==
    {req \in RawRequests(PipelinePlans) :
        /\ model_post_init(req)
        /\ req.repo_url = (IF req.create_new_repo THEN "None" ELSE "url")
        /\ req.new_repo_config = (IF req.create_new_repo THEN "config" ELSE "None")
        /\ req.new_branch_name = "None"}

FairNext == NextOver(FairRequests)

\* The requests of the runs of the coding agent: the same combinations of
\* flags, with each plan given to the agent.
AgentRequests ==
    {req \in RawRequests(AgentPlans) :
        /\ model_post_init(req)
        /\ req.repo_url = (IF req.create_new_repo THEN "None" ELSE "url")
        /\ req.new_repo_config = (IF req.create_new_repo THEN "config" ELSE "None")
        /\ req.new_branch_name = "None"}

AgentNext == NextOver(AgentRequests)

AgentSpec == Init /\ [][AgentNext]_vars

\* Every awaited external call returns or raises.
FairSpec ==
    Init /\ [][FairNext]_vars /\ \A j \in JobIds : WF_vars(RunStep(j))

\* ------------------------------------- OrchestrationService, the registry
\* OrchestrationService.create_job, called with a JobRequest: the job is
\* stored under a new uuid4 (here the next free index) and returned.
create_job(req) ==
    /\ Len(jobs) < MaxJobs + MaxOtherJobs
    /\ LET job_id == Len(jobs) + 1
       IN  /\ jobs' = Append(jobs, NewJob(job_id, req))
           /\ last' = Call("create_job", job_id, "Job", Some(req))
    /\ UNCHANGED <<run, active_sessions, created_sessions>>

\* self.jobs.get(job_id): the job, or None
GetJob(job_id) == IF job_id \in DOMAIN jobs THEN Some(jobs[job_id]) ELSE None

\* list(self.jobs.values()): the jobs in the order of their registration
ListJobs == [k \in 1..Len(jobs) |-> jobs[k]]

\* OrchestrationService.get_job; the value returned is kept in last.req
get_job(job_id) ==
    /\ last' = Call("get_job", job_id,
                    IF GetJob(job_id) = None THEN "None" ELSE "Job",
                    GetJob(job_id))
    /\ UNCHANGED <<jobs, run, active_sessions, created_sessions>>

\* OrchestrationService.list_jobs; the value returned is kept in last.req
list_jobs ==
    /\ last' = Call("list_jobs", 0, "list", Some(ListJobs))
    /\ UNCHANGED <<jobs, run, active_sessions, created_sessions>>

\* The requests of the registry's jobs: one for a new repository and one for
\* a new branch of an existing repository, both with a one-step plan and a
\* push.
JobsRequests ==
    {req \in RawRequests({PlanOne}) :
        /\ model_post_init(req)
        /\ req.push_changes
        /\ req.create_new_repo # req.create_new_branch
        /\ req.repo_url = (IF req.create_new_repo THEN "None" ELSE "url")
        /\ req.new_repo_config = (IF req.create_new_repo THEN "config" ELSE "None")
        /\ req.new_branch_name = (IF req.create_new_branch THEN "feature" ELSE "None")}

JobsNext ==
    \/ \E req \in JobsRequests : create_job(req)
    \/ \E id \in {0} \cup RegistryIds : get_job(id)
    \/ list_jobs
    \/ \E id \in {0} \cup RegistryIds : CancelJob(id)
    \/ \E j \in JobIds : StartJob(j)
    \/ \E j \in JobIds, ok \in BOOLEAN : CreateSessionReturns(j, ok)
    \/ \E j \in JobIds, out \in CreateRepoOutcomes : CreateRepositoryReturns(j, out)
    \/ \E j \in JobIds, out \in CloneOutcomes, contents \in RepoContents :
          CloneRepositoryReturns(j, out, contents)
    \/ \E j \in JobIds, ok \in BOOLEAN : CreateBranchReturns(j, ok)
    \/ \E j \in JobIds : StepReturns(j)
    \/ \E j \in JobIds, url_ok \in BOOLEAN, push_ok \in BOOLEAN :
          PushBranchReturns(j, url_ok, push_ok)
    \/ \E j \in JobIds, kill_ok \in BOOLEAN : DestroySessionReturns(j, kill_ok)

JobsSpec == Init /\ [][JobsNext]_vars

\* ------------------------------------------ several jobs run concurrently
\* The request of the concurrent jobs: an existing repository, a one-step
\* plan, no new branch; with and without a push.
ConcurrentRequests ==
    {req \in RawRequests({PlanOne}) :
        /\ model_post_init(req)
        /\ ~req.create_new_repo /\ ~req.create_new_branch
        /\ req.repo_url = "url"
        /\ req.new_repo_config = "None"
        /\ req.new_branch_name = "None"}

\* Every registered job is run as its own execute_job task
\* (execute_job_async); the tasks interleave at their awaits.
ConcurrentNext ==
    \/ \E req \in ConcurrentRequests : create_job(req)
    \/ \E id \in RegistryIds : CancelJob(id)
    \/ \E j \in RegistryIds : StartJob(j)
    \/ \E j \in RegistryIds, ok \in BOOLEAN : CreateSessionReturns(j, ok)
    \/ \E j \in RegistryIds, out \in CloneOutcomes, contents \in RepoContents :
          CloneRepositoryReturns(j, out, contents)
    \/ \E j \in RegistryIds : StepReturns(j)
    \/ \E j \in RegistryIds, url_ok \in BOOLEAN, push_ok \in BOOLEAN :
          PushBranchReturns(j, url_ok, push_ok)
    \/ \E j \in RegistryIds, kill_ok \in BOOLEAN : DestroySessionReturns(j, kill_ok)

ConcurrentSpec == Init /\ [][ConcurrentNext]_vars

\* ------------------------------------------------ VMService, called directly
\* The ids a caller can pass: those create_session hands out (sandbox ids,
\* never handed out twice) and one that is never handed out.
SessionIds == {<<0, k>> : k \in 1..(MaxSessions + 1)}

\* VMService.create_session: registers the sandbox under its id and returns
\* the VMSession, or raises.
create_session(ok) ==
    /\ Cardinality(created_sessions) < MaxSessions
    /\ LET session_id == <<0, Cardinality(created_sessions) + 1>>
       IN  IF ok
           THEN /\ active_sessions' = active_sessions \cup {session_id}
                /\ created_sessions' = created_sessions \cup {session_id}
                /\ last' = Call("create_session", session_id, "VMSession", None)
           ELSE /\ last' = Call("create_session", <<0, 0>>, "Exception", None)
                /\ UNCHANGED <<active_sessions, created_sessions>>
    /\ UNCHANGED <<jobs, run>>

\* VMService._get_sandbox: the sandbox of an active session, ValueError
\* otherwise.
get_sandbox(session_id) ==
    IF session_id \notin active_sessions THEN "ValueError" ELSE "Sandbox"

\* VMService.execute_command: _get_sandbox raises outside the try; a command
\* that fails or raises gives a VMExecutionResult with success False.
execute_command(session_id, ok) ==
    /\ last' = Call("execute_command", session_id,
                    IF get_sandbox(session_id) = "ValueError" THEN "ValueError"
                    ELSE IF ok THEN "success" ELSE "failure", None)
    /\ UNCHANGED <<jobs, run, active_sessions, created_sessions>>

\* an unknown session is reported as a failed write
write_file_false_when_unknown(session_id, ok) ==
    /\ last' = Call("write_file", session_id,
                    IF get_sandbox(session_id) = "ValueError" THEN "False"
                    ELSE IF ok THEN "True" ELSE "False", None)
    /\ UNCHANGED <<jobs, run, active_sessions, created_sessions>>

\* VMService.write_file: _get_sandbox raises outside the try; True when the
\* write worked, False when it raised.
write_file(session_id, ok) ==
    /\ last' = Call("write_file", session_id,
                    IF get_sandbox(session_id) = "ValueError" THEN "ValueError"
                    ELSE IF ok THEN "True" ELSE "False", None)
    /\ UNCHANGED <<jobs, run, active_sessions, created_sessions>>

\* VMService.read_file: _get_sandbox raises outside the try; the content, or
\* FileNotFoundError when the read raised.
read_file(session_id, ok) ==
    /\ last' = Call("read_file", session_id,
                    IF get_sandbox(session_id) = "ValueError" THEN "ValueError"
                    ELSE IF ok THEN "content" ELSE "FileNotFoundError", None)
    /\ UNCHANGED <<jobs, run, active_sessions, created_sessions>>

\* the sandbox is killed and its entry stays in active_sessions
destroy_session_keeps_entry(session_id, kill_ok) ==
    /\ last' = Call("destroy_session", session_id,
                    IF session_id \in active_sessions /\ kill_ok
                    THEN "True" ELSE "False", None)
    /\ UNCHANGED <<jobs, run, active_sessions, created_sessions>>

\* VMService.destroy_session: False for an id that is not active; kill()
\* and removal of the entry give True; False, the entry kept, when kill()
\* raises.
destroy_session(session_id, kill_ok) ==
    /\ IF session_id \notin active_sessions
       THEN /\ last' = Call("destroy_session", session_id, "False", None)
            /\ UNCHANGED active_sessions
       ELSE IF kill_ok
            THEN /\ active_sessions' = active_sessions \ {session_id}
                 /\ last' = Call("destroy_session", session_id, "True", None)
            ELSE /\ last' = Call("destroy_session", session_id, "False", None)
                 /\ UNCHANGED active_sessions
    /\ UNCHANGED <<jobs, run, created_sessions>>

\* VMService.get_session_status: READY for an active session, None otherwise.
get_session_status(session_id) ==
    /\ last' = Call("get_session_status", session_id,
                    IF session_id \in active_sessions THEN "READY" ELSE "None",
                    None)
    /\ UNCHANGED <<jobs, run, active_sessions, created_sessions>>

VmNext ==
    \/ \E ok \in BOOLEAN : create_session(ok)
    \/ \E session_id \in SessionIds, ok \in BOOLEAN :
          execute_command(session_id, ok)
    \/ \E session_id \in SessionIds, ok \in BOOLEAN : write_file(session_id, ok)
    \/ \E session_id \in SessionIds, ok \in BOOLEAN : read_file(session_id, ok)
    \/ \E session_id \in SessionIds, kill_ok \in BOOLEAN :
          destroy_session(session_id, kill_ok)
    \/ \E session_id \in SessionIds : get_session_status(session_id)

VmSpec == Init /\ [][VmNext]_vars

\* ------------------------------------------------------------------ claims
Count(s, v) == Cardinality({k \in 1..Len(s) : s[k] = v})
Called(j, op) == \E k \in 1..Len(run[j].calls) : run[j].calls[k] = op
Status(j) == jobs[j].progress.status

\* C1: in every reachable state a job has a JobResult if and only if its
\* JobProgress.status is completed, failed or cancelled.
C1_ResultIffTerminal ==
    \A j \in DOMAIN jobs :
        jobs[j].result # None <=> Status(j) \in {COMPLETED, FAILED, CANCELLED}

\* C2: fail-fast: a step result with status failed is the last entry of
\* steps_completed; no later step is attempted.
C2_FailFast ==
    \A j \in DOMAIN jobs :
        \A k \in 1..Len(run[j].results) :
            run[j].results[k].status = "failed" => k = Len(run[j].results)

\* C3 as claimed: every execute_job run that has returned invoked
\* destroy_session exactly once.
C3_TeardownOncePerRun ==
    \A j \in DOMAIN jobs :
        run[j].pc = "returned" => Count(run[j].calls, "destroy_session") = 1

\* C3 as amended: a run that has returned invoked destroy_session exactly once
\* if create_session gave it a session, whatever the outcome of the run and of
\* the teardown, and never if provisioning failed; no run invokes it twice.
C3_TeardownOncePerSession ==
    \A j \in DOMAIN jobs :
        /\ Count(run[j].calls, "destroy_session") <= 1
        /\ run[j].pc = "returned" =>
              Count(run[j].calls, "destroy_session") =
                  IF run[j].vm_session_id # None THEN 1 ELSE 0

\* a failed run has returned and its teardown failed: the session is still active
C3_Witness ==
    \E j \in DOMAIN jobs :
        /\ run[j].pc = "returned"
        /\ run[j].result[1].status = FAILED
        /\ run[j].vm_session_id # None
        /\ run[j].vm_session_id[1] \in active_sessions

\* C4: the error_stage of a failed JobResult names the JobStatus value the job
\* had immediately before the failure, and that value is one of the stage
\* values (pending ... pushing_changes).
C4_ErrorStageIsPriorStatus ==
    \A j \in DOMAIN jobs :
        (run[j].result # None /\ run[j].result[1].status = FAILED) =>
            \E s \in StageStatus :
                /\ run[j].failed_from = Some(s)
                /\ run[j].result[1].error_stage = Some(ErrorStage(s))

\* C5: terminal states are absorbing: once a job's status is completed, failed
\* or cancelled, no step changes its progress or its result.
C5_TerminalAbsorbing ==
    [][\A j \in DOMAIN jobs :
          Status(j) \in {COMPLETED, FAILED, CANCELLED} =>
              /\ jobs'[j].progress = jobs[j].progress
              /\ jobs'[j].result = jobs[j].result]_vars

\* C6: every execute_job run eventually returns, and when it returns it
\* returns the job's JobResult, whose status is completed or failed and is the
\* job's status.
C6_RunReturnsTerminalResult ==
    /\ \A j \in JobIds : Running(j) ~> (run[j].pc = "returned")
    /\ [](\A j \in DOMAIN jobs :
             run[j].pc = "returned" =>
                 /\ run[j].result # None
                 /\ run[j].result[1].status \in {COMPLETED, FAILED}
                 /\ jobs[j].progress.status = run[j].result[1].status
                 /\ jobs[j].result = run[j].result)

\* a run returned failed after cancel_job had succeeded during it
C6_Witness ==
    \E j \in DOMAIN jobs :
        /\ run[j].pc = "returned"
        /\ run[j].failed_from = Some(CANCELLED)
        /\ Status(j) = FAILED

\* C7: a job is registered only for a request that gives exactly one of
\* repo_url and new_repo_config.
C7_RejectsBothOrNeither ==
    (last.op = "create_job" /\ last.ret = "Job") =>
        Truthy(last.req[1].repo_url) # Truthy(last.req[1].new_repo_config)

\* C8: JobRequest construction is rejected when create_new_repo is true and
\* new_repo_config is absent and when create_new_repo is false and repo_url is
\* absent; it is accepted when create_new_repo is false with a repo_url and
\* when create_new_repo is true with a new_repo_config.
C8_JobRequestValidation ==
    last.op = "create_job" =>
        LET req == last.req[1]
        IN  /\ (req.create_new_repo /\ req.new_repo_config = "None")
                  => last.ret = "ValueError"
            /\ (~req.create_new_repo /\ req.repo_url \in {"None", ""})
                  => last.ret = "ValueError"
            /\ (~req.create_new_repo /\ req.repo_url = "url")
                  => last.ret = "Job"
            /\ (req.create_new_repo /\ req.new_repo_config = "config")
                  => last.ret = "Job"

\* a new-repository request without new_repo_config was rejected although it
\* named a repo_url, and nothing was registered
C8_Witness ==
    /\ last.op = "create_job"
    /\ last.ret = "ValueError"
    /\ last.req[1].create_new_repo
    /\ last.req[1].repo_url = "url"
    /\ jobs = <<>>

\* C9: cancel_job(id) returns False and changes nothing when the id is absent
\* or the job's status is completed, failed or cancelled; otherwise it returns
\* True and sets the job's status to cancelled with percentage 0, changing
\* nothing else of the job, of the registry, of the run or of the sessions.
C9_CancelJob ==
    [][last'.op = "cancel_job" =>
          LET id == last'.id
          IN  IF id \notin DOMAIN jobs
                 \/ jobs[id].progress.status \in {COMPLETED, FAILED, CANCELLED}
              THEN last'.ret = "False" /\ jobs' = jobs
                   /\ run' = run /\ active_sessions' = active_sessions
              ELSE /\ last'.ret = "True"
                   /\ DOMAIN jobs' = DOMAIN jobs
                   /\ jobs'[id].progress.status = CANCELLED
                   /\ jobs'[id].progress.progress_percentage = 0
                   /\ jobs'[id].request = jobs[id].request
                   /\ jobs'[id].result = jobs[id].result
                   /\ \A k \in DOMAIN jobs \ {id} : jobs'[k] = jobs[k]
                   /\ run' = run /\ active_sessions' = active_sessions]_vars

\* cancel_job returned True for a job whose run is in progress
C9_Witness ==
    /\ last.op = "cancel_job" /\ last.ret = "True"
    /\ Running(last.id)
    /\ Status(last.id) = CANCELLED

\* C10: push_branch is invoked only if the request has push_changes set and
\* the agent produced at least one commit; a run without a push has a result
\* with pushed = false.
C10_PushOnlyIfRequestedAndCommitted ==
    \A j \in DOMAIN jobs :
        /\ Called(j, "push_branch") =>
              jobs[j].request.push_changes /\ run[j].commits # <<>>
        /\ (~Called(j, "push_branch") /\ run[j].result # None) =>
              ~run[j].result[1].pushed

\* a run with push_changes set completed with edits but without a commit, and
\* so without a push
C10_Witness ==
    \E j \in DOMAIN jobs :
        /\ jobs[j].request.push_changes
        /\ Status(j) = COMPLETED
        /\ run[j].result # None /\ run[j].result[1].total_edits > 0
        /\ run[j].commits = <<>>
        /\ ~Called(j, "push_branch")

\* C11: when push_branch was called and failed, the run still writes a result
\* with status completed, success = true and pushed = false, and the job ends
\* completed; a failed push never gives a failed result.
C11_PushFailureNotFatal ==
    \A j \in DOMAIN jobs :
        (run[j].push_result = Some(FALSE)) =>
            /\ run[j].result # None
            /\ run[j].result[1].status = COMPLETED
            /\ run[j].result[1].success
            /\ ~run[j].result[1].pushed
            /\ jobs[j].result = run[j].result
            /\ run[j].pc = "returned" => Status(j) = COMPLETED

\* a run whose push failed has returned with commits and the job is completed
C11_Witness ==
    \E j \in DOMAIN jobs :
        /\ run[j].push_result = Some(FALSE)
        /\ run[j].pc = "returned"
        /\ run[j].commits # <<>>
        /\ Status(j) = COMPLETED

\* the position of a status in the order of the stages
Rank(status) ==
    CASE status = PENDING -> 0
      [] status = INITIALIZING_VM -> 1
      [] status = CREATING_REPO -> 2
      [] status = CLONING_REPO -> 3
      [] status = EXECUTING_AGENT -> 4
      [] status = PUSHING_CHANGES -> 5
      [] OTHER -> 6

\* the non-terminal statuses a run has written, in the order written
StagesOf(j) == SelectSeq(run[j].stages, LAMBDA s : s \in StageStatus)

StrictlyIncreasing(stages) ==
    \A a \in 1..Len(stages) : \A b \in 1..Len(stages) :
        a < b => Rank(stages[a]) < Rank(stages[b])

Entered(j, status) == \E k \in 1..Len(run[j].stages) : run[j].stages[k] = status

\* C12 as claimed: the non-terminal statuses a run writes are strictly
\* increasing in the order of the stages, and a run that has returned entered
\* creating_repo if and only if its request has create_new_repo set.
C12_StagesOrderedCreateIff ==
    \A j \in DOMAIN jobs :
        /\ StrictlyIncreasing(StagesOf(j))
        /\ run[j].pc = "returned" =>
              (Entered(j, CREATING_REPO) <=> jobs[j].request.create_new_repo)

\* C12 as amended: the non-terminal statuses a run writes are strictly
\* increasing in the order of the stages; creating_repo is entered only if the
\* request has create_new_repo set, and it is entered by every run with
\* create_new_repo set once create_session has given it a session.
C12_StagesOrderedCreateAfterSession ==
    \A j \in DOMAIN jobs :
        /\ StrictlyIncreasing(StagesOf(j))
        /\ Entered(j, CREATING_REPO) => jobs[j].request.create_new_repo
        /\ (jobs[j].request.create_new_repo /\ run[j].vm_session_id # None)
              => Entered(j, CREATING_REPO)
        /\ (run[j].pc = "returned" /\ run[j].vm_session_id = None)
              => StagesOf(j) = <<INITIALIZING_VM>>

\* a run for a new repository went through every stage and returned
C12_Witness ==
    \E j \in DOMAIN jobs :
        /\ run[j].pc = "returned"
        /\ StagesOf(j) = <<INITIALIZING_VM, CREATING_REPO, CLONING_REPO,
                           EXECUTING_AGENT, PUSHING_CHANGES>>

\* the stages of a run without creating_repo
MainStagesOf(j) == SelectSeq(StagesOf(j), LAMBDA s : s # CREATING_REPO)

\* C13 as claimed: a run that completed was before, in this order, in
\* initializing_vm, cloning_repo, executing_agent and pushing_changes.
C13_CompletedThroughEveryStage ==
    \A j \in DOMAIN jobs :
        (run[j].result # None /\ run[j].result[1].status = COMPLETED) =>
            MainStagesOf(j) = <<INITIALIZING_VM, CLONING_REPO, EXECUTING_AGENT,
                               PUSHING_CHANGES>>

\* C13 as amended: a run that completed was before, in this order, in
\* initializing_vm, cloning_repo and executing_agent, and after these in
\* pushing_changes exactly when push_changes is set and a commit was created;
\* completed is the last status it wrote.
C13_CompletedThroughStages ==
    \A j \in DOMAIN jobs :
        (run[j].result # None /\ run[j].result[1].status = COMPLETED) =>
            /\ MainStagesOf(j) =
                  IF jobs[j].request.push_changes /\ run[j].commits # <<>>
                  THEN <<INITIALIZING_VM, CLONING_REPO, EXECUTING_AGENT,
                         PUSHING_CHANGES>>
                  ELSE <<INITIALIZING_VM, CLONING_REPO, EXECUTING_AGENT>>
            /\ run[j].stages[Len(run[j].stages)] = COMPLETED

\* a run completed without pushing although push_changes was set: no commit
C13_Witness ==
    \E j \in DOMAIN jobs :
        /\ run[j].pc = "returned" /\ Status(j) = COMPLETED
        /\ jobs[j].request.push_changes
        /\ ~Entered(j, PUSHING_CHANGES)
        /\ Entered(j, EXECUTING_AGENT)

\* the number of FileChanges of the plan of job j with priority <= step_number
RelevantCount(j, step_number) ==
    Cardinality({i \in 1..Len(run[j].plan.files) :
                    run[j].plan.files[i].priority <= step_number})

\* C14: a step result is completed if the step produced at least one edit,
\* failed if it had a candidate file but produced no edit, and skipped if it
\* had no candidate file; it has exactly one of the three statuses.
C14_StepStatusByEditsAndCandidates ==
    \A j \in DOMAIN jobs : \A k \in 1..Len(run[j].results) :
        LET r == run[j].results[k]
            has_candidates == RelevantCount(j, r.step_number) > 0
        IN  /\ r.status \in {"completed", "failed", "skipped"}
            /\ r.status = "completed" <=> r.edits # <<>>
            /\ r.status = "failed" <=> (r.edits = <<>> /\ has_candidates)
            /\ r.status = "skipped" <=> ~has_candidates
            /\ has_candidates <=> r.files_for_step # <<>>

\* a plan whose first step was skipped and whose second step completed
C14_Witness ==
    \E j \in DOMAIN jobs :
        /\ Len(run[j].results) = 2
        /\ run[j].results[1].status = "skipped"
        /\ run[j].results[2].status = "completed"

\* C15: every candidate of a step is processed, in order, whatever happened
\* to the candidates before it; a step with two candidates of which the first
\* failed validation and the second was written is completed with exactly
\* one edit, that of the second.
C15_SiblingFilesStillAttempted ==
    \A j \in DOMAIN jobs : \A k \in 1..Len(run[j].results) :
        LET r == run[j].results[k]
        IN  /\ r.processed = r.candidate_paths
            /\ (/\ Len(r.candidate_paths) = 2
                 /\ r.validations =
                       <<[success |-> FALSE, file_path |-> r.candidate_paths[1]],
                         [success |-> TRUE, file_path |-> r.candidate_paths[2]]>>
                 /\ \E e \in 1..Len(r.edits) :
                       r.edits[e].file_path = r.candidate_paths[2])
                => /\ r.status = "completed"
                   /\ Len(r.edits) = 1
                   /\ r.edits[1].file_path = r.candidate_paths[2]

\* a step of two candidates: the first failed validation, the second was
\* validated and written
C15_Witness ==
    \E j \in DOMAIN jobs : \E k \in 1..Len(run[j].results) :
        LET r == run[j].results[k]
        IN  /\ Len(r.candidate_paths) = 2
            /\ Len(r.validations) = 2
            /\ ~r.validations[1].success
            /\ Len(r.edits) = 1
            /\ r.status = "completed"

\* C16: the steps are executed in ascending step_number order, whatever their
\* order in plan.steps: the step results and the commits appear in strictly
\* increasing step-number order.
C16_StepsInStepNumberOrder ==
    \A j \in DOMAIN jobs :
        /\ \A a \in 1..Len(run[j].results) : \A b \in 1..Len(run[j].results) :
              a < b => run[j].results[a].step_number
                          < run[j].results[b].step_number
        /\ \A a \in 1..Len(run[j].git) : \A b \in 1..Len(run[j].git) :
              a < b => run[j].git[a].step < run[j].git[b].step

\* FileChange a comes before FileChange b: lower priority value, or the same
\* priority and earlier in files_to_change
Before(files, a, b) ==
    \/ files[a].priority < files[b].priority
    \/ files[a].priority = files[b].priority /\ a < b

\* C17: the candidates of step k are the FileChanges of the plan with
\* priority <= k in ascending priority order, ties in plan order, cut to the
\* first 3; resolving the candidates of the step again on the plan gives the
\* same FileChanges with the same paths in the same order.
C17_CandidatesByPriority ==
    \A j \in DOMAIN jobs : \A n \in 1..Len(run[j].results) :
        LET r == run[j].results[n]
            k == r.step_number
            files == run[j].plan.files
            c == r.files_for_step
            relevant == {i \in 1..Len(files) : files[i].priority <= k}
            taken == {c[a] : a \in 1..Len(c)}
            again == FixedPlan(run[j].plan, k)
        IN  /\ taken \subseteq relevant
            /\ \A a \in 1..Len(c) : \A b \in 1..Len(c) :
                  a < b => Before(files, c[a], c[b])
            /\ Len(c) = IF Cardinality(relevant) < 3
                        THEN Cardinality(relevant) ELSE 3
            /\ \A i \in relevant \ taken : \A a \in 1..Len(c) :
                  Before(files, c[a], i)
            /\ \A a \in 1..Len(c) :
                  /\ r.candidate_paths[a] = files[c[a]].path
                  /\ r.candidate_paths[a] =
                        FixPath(jobs[j].request.plan.files[c[a]].path)
            /\ GetFilesForStep(again, k) = c
            /\ \A a \in 1..Len(c) :
                  again.files[c[a]].path = r.candidate_paths[a]

\* of four relevant files listed out of priority order, the step took the two
\* of priority 1 and then the first of priority 2
C17_Witness ==
    \E j \in DOMAIN jobs : \E n \in 1..Len(run[j].results) :
        /\ run[j].results[n].files_for_step = <<2, 4, 1>>
        /\ Len(run[j].plan.files) = 5

\* the paths of the edits of a step result, in order
EditPaths(r) == [e \in 1..Len(r.edits) |-> r.edits[e].file_path]

\* the step results that carry a commit id
WithCommit(j) == {n \in 1..Len(run[j].results) : run[j].results[n].commit_sha # None}

\* C18 as claimed: every completed step result has a commit id, the id is in
\* commits_created, and the commit with that id names exactly the paths of
\* the step's edits.
C18_CompletedStepHasCommit ==
    \A j \in DOMAIN jobs : \A n \in 1..Len(run[j].results) :
        LET r == run[j].results[n]
        IN  r.status = "completed" =>
                /\ r.commit_sha # None
                /\ \E i \in 1..Len(run[j].commits) :
                      run[j].commits[i] = r.commit_sha[1]
                /\ \E g \in 1..Len(run[j].git) :
                      /\ run[j].git[g].sha = r.commit_sha[1]
                      /\ run[j].git[g].step = r.step_number
                      /\ run[j].git[g].files = EditPaths(r)

\* C18 as amended: create_commit is called once for every completed step;
\* the commits made are, in order, the entries of commits_created, one per
\* step result carrying a commit id; a step result carries a commit id only
\* if the step is completed, and the commit with that id names exactly the
\* paths of the step's edits.
C18_CommittedStepHasCommit ==
    \A j \in DOMAIN jobs :
        /\ Count(run[j].calls, "create_commit") =
              Cardinality({n \in 1..Len(run[j].results) :
                              run[j].results[n].status = "completed"})
        /\ Len(run[j].git) = Len(run[j].commits)
        /\ \A i \in 1..Len(run[j].git) : run[j].git[i].sha = run[j].commits[i]
        /\ Cardinality(WithCommit(j)) = Len(run[j].commits)
        /\ \A n \in WithCommit(j) :
              LET r == run[j].results[n]
              IN  /\ r.status = "completed"
                  /\ \E g \in 1..Len(run[j].git) :
                        /\ run[j].git[g].sha = r.commit_sha[1]
                        /\ run[j].git[g].step = r.step_number
                        /\ run[j].git[g].files = EditPaths(r)

\* two steps completed: the commit of the first failed, that of the second
\* was made and recorded
C18_Witness ==
    \E j \in DOMAIN jobs :
        /\ Len(run[j].results) = 2
        /\ run[j].results[1].status = "completed"
        /\ run[j].results[1].commit_sha = None
        /\ run[j].results[2].commit_sha # None
        /\ Len(run[j].commits) = 1

\* the sum of the token costs of the first n step results
RECURSIVE TokenSum(_, _)
TokenSum(results, n) ==
    IF n = 0 THEN 0
    ELSE TokenSum(results, n - 1) + results[n].llm_tokens_used

\* the FileEdits of a list of step results, as (step result, edit) positions
EditsOf(results) ==
    {p \in (1..Len(results)) \X (1..MaxFilesPerStep) :
        p[2] <= Len(results[p[1]].edits)}

\* C19: the result of execute_plan has success = true if and only if every
\* step result in steps_completed is completed; total_edits is the number of
\* FileEdits of the step results, total_files_changed the number of distinct
\* paths edited, total_tokens_used the sum of the steps' token costs.
C19_AggregateResult ==
    \A j \in DOMAIN jobs :
        run[j].agent_result # None =>
            LET a == run[j].agent_result[1]
                results == a.steps_completed
            IN  /\ results = run[j].results
                /\ a.success <=>
                      \A n \in 1..Len(results) : results[n].status = "completed"
                /\ a.total_edits = Cardinality(EditsOf(results))
                /\ a.total_files_changed =
                      Cardinality({results[p[1]].edits[p[2]].file_path :
                                      p \in EditsOf(results)})
                /\ a.total_tokens_used = TokenSum(results, Len(results))
                /\ a.commits_created = run[j].commits

\* two steps edited the same file: two edits, one file changed
C19_Witness ==
    \E j \in DOMAIN jobs :
        /\ run[j].agent_result # None
        /\ run[j].agent_result[1].success
        /\ run[j].agent_result[1].total_edits = 2
        /\ run[j].agent_result[1].total_files_changed = 1
        /\ run[j].agent_result[1].total_tokens_used = 2 * TokensPerCall

\* provisioning and clone succeeded and every step of the plan produced an edit
AllStepsEdited(j) ==
    /\ run[j].vm_session_id # None /\ run[j].repo_path # None
    /\ run[j].plan.steps # <<>>
    /\ Len(run[j].results) = Len(run[j].plan.steps)
    /\ \A n \in 1..Len(run[j].results) : run[j].results[n].edits # <<>>

\* C20 as claimed: if provisioning and clone succeed and every step of the
\* plan gets a file written, the run returns completed with success = true,
\* commits_created the number of steps and files_changed the number of
\* distinct paths edited.
C20_HappyPathCounts ==
    \A j \in DOMAIN jobs :
        (AllStepsEdited(j) /\ run[j].pc = "returned") =>
            /\ Status(j) = COMPLETED
            /\ run[j].result[1].status = COMPLETED
            /\ run[j].result[1].success
            /\ run[j].result[1].commits_created = Len(run[j].plan.steps)
            /\ run[j].result[1].files_changed =
                  Cardinality(EditedPaths(run[j].results))

\* C20 as amended: under the same conditions the run returns completed with
\* success = true and files_changed the number of distinct paths edited;
\* commits_created is the number of steps whose commit was made, which is the
\* number of steps when no create_commit fails.
C20_HappyPathCountsCommitsMade ==
    \A j \in DOMAIN jobs :
        (AllStepsEdited(j) /\ run[j].pc = "returned") =>
            /\ Status(j) = COMPLETED
            /\ run[j].result[1].status = COMPLETED
            /\ run[j].result[1].success
            /\ run[j].result[1].commits_created = Cardinality(WithCommit(j))
            /\ Len(run[j].git) = run[j].result[1].commits_created
            /\ (\A n \in 1..Len(run[j].results) :
                    run[j].results[n].commit_sha # None)
                  => run[j].result[1].commits_created = Len(run[j].plan.steps)
            /\ run[j].result[1].files_changed =
                  Cardinality({run[j].results[p[1]].edits[p[2]].file_path :
                                  p \in EditsOf(run[j].results)})

\* one step with one create-intent file: files_changed = 1, commits_created = 1
C20_Witness ==
    \E j \in DOMAIN jobs :
        /\ AllStepsEdited(j) /\ run[j].pc = "returned"
        /\ Len(run[j].plan.steps) = 1
        /\ Len(run[j].plan.files) = 1
        /\ jobs[j].request.plan.files[1].intent = "create"
        /\ run[j].results[1].edits[1].edit_type = "create"
        /\ run[j].result[1].files_changed = 1
        /\ run[j].result[1].commits_created = 1
        /\ run[j].result[1].success

\* the positions (step result, edit) of the FileEdits of job j
EditPositions(j) == EditsOf(run[j].results)

\* the file of the edit at position p was there when it was processed: the
\* clone brought it or an earlier edit of the run wrote it
ExistedBefore(j, p) ==
    LET path == run[j].results[p[1]].edits[p[2]].file_path
    IN  \/ path \in run[j].cloned
        \/ \E q \in EditPositions(j) :
              /\ q[1] < p[1] \/ (q[1] = p[1] /\ q[2] < p[2])
              /\ run[j].results[q[1]].edits[q[2]].file_path = path

\* C21: a FileEdit has edit_type create if and only if its file did not exist
\* when it was processed, and no original_content if and only if its
\* edit_type is create; a candidate of intent create whose file existed is
\* turned into modify, and its step is completed and committed like a create:
\* the status and the counts of a step and of a completed job do not depend
\* on the edit types.
C21_CreateOnExistingIsModify ==
    \A j \in DOMAIN jobs :
        /\ \A p \in EditPositions(j) :
              LET r == run[j].results[p[1]]
                  edit == r.edits[p[2]]
              IN  /\ edit.edit_type \in {"create", "modify"}
                  /\ edit.edit_type = "create" <=> ~ExistedBefore(j, p)
                  /\ edit.original_content = None <=> edit.edit_type = "create"
                  /\ r.status = "completed"
                  /\ \A i \in 1..Len(run[j].plan.files) :
                        (/\ run[j].plan.files[i].path = edit.file_path
                         /\ i \in {r.files_for_step[a] :
                                       a \in 1..Len(r.files_for_step)}
                         /\ edit.edit_type = "modify")
                        => run[j].plan.files[i].intent # "create"
        /\ (run[j].result # None /\ run[j].result[1].status = COMPLETED) =>
              /\ run[j].result[1].success
              /\ run[j].result[1].total_edits = Cardinality(EditPositions(j))
              /\ run[j].result[1].files_changed =
                    Cardinality({run[j].results[p[1]].edits[p[2]].file_path :
                                    p \in EditPositions(j)})

\* scenario B: one step, one create-intent file that the clone already had;
\* the edit is a modify and the job completed with one file and one commit
C21_Witness ==
    \E j \in DOMAIN jobs :
        /\ run[j].pc = "returned" /\ Status(j) = COMPLETED
        /\ Len(jobs[j].request.plan.steps) = 1
        /\ Len(jobs[j].request.plan.files) = 1
        /\ jobs[j].request.plan.files[1].intent = "create"
        /\ jobs[j].request.plan.files[1].path \in run[j].cloned
        /\ run[j].results[1].edits[1].edit_type = "modify"
        /\ run[j].result[1].files_changed = 1
        /\ run[j].result[1].commits_created = 1

\* the position of the first call of op in the calls of job j (0: never)
FirstCall(j, op) ==
    IF Called(j, op)
    THEN CHOOSE k \in 1..Len(run[j].calls) :
            /\ run[j].calls[k] = op
            /\ \A m \in 1..(k - 1) : run[j].calls[m] # op
    ELSE 0

\* C22: in a run for a new repository create_repository is called before
\* clone_repository, create_branch is never called, and once the repository
\* is created the branch checked out for the commits, the branch pushed and
\* JobResult.branch_name are the default branch of the created repository.
C22_NewRepoUsesDefaultBranch ==
    \A j \in DOMAIN jobs :
        jobs[j].request.create_new_repo =>
            /\ ~Called(j, "create_branch")
            /\ Called(j, "clone_repository") =>
                  /\ run[j].created_new_repo
                  /\ 0 < FirstCall(j, "create_repository")
                  /\ FirstCall(j, "create_repository")
                        < FirstCall(j, "clone_repository")
            /\ run[j].created_new_repo => run[j].branch_name = "default_branch"
            /\ (Called(j, "create_commit") \/ Called(j, "push_branch")) =>
                  /\ run[j].head = "default_branch"
                  /\ run[j].branch_name = "default_branch"
            /\ (run[j].result # None /\ run[j].created_new_repo) =>
                  run[j].result[1].branch_name = "default_branch"

\* a run for a new repository with create_new_branch and a new_branch_name
\* committed, pushed and returned
C22_Witness ==
    \E j \in DOMAIN jobs :
        /\ jobs[j].request.create_new_repo
        /\ jobs[j].request.create_new_branch
        /\ jobs[j].request.new_branch_name = "feature"
        /\ run[j].pc = "returned"
        /\ Called(j, "create_commit") /\ Called(j, "push_branch")
        /\ run[j].result[1].branch_name = "default_branch"

\* the run of job j is over: the result is written
Over(j) == run[j].pc \in {"destroy_session", "returned"}

\* create_repository was called and did not give a repository
CreationFailed(j) ==
    Called(j, "create_repository") /\ ~run[j].created_new_repo /\ Over(j)

\* clone_repository was called and did not give a clone
CloneFailed(j) ==
    Called(j, "clone_repository") /\ run[j].repo_path = None /\ Over(j)

\* C23: after a failed create_repository no clone and no plan step is
\* attempted, after a failed clone_repository no plan step is attempted; in
\* both cases the result is failed, destroy_session is called once for the
\* session of the run, and the run returns with the job failed.
C23_CreateOrCloneFailureIsFatal ==
    \A j \in DOMAIN jobs :
        (CreationFailed(j) \/ CloneFailed(j)) =>
            /\ CreationFailed(j) => ~Called(j, "clone_repository")
            /\ run[j].results = <<>>
            /\ ~Called(j, "create_branch")
            /\ ~Called(j, "write_file") /\ ~Called(j, "create_commit")
            /\ ~Called(j, "push_branch")
            /\ run[j].result # None /\ run[j].result[1].status = FAILED
            /\ Status(j) = FAILED
            /\ run[j].vm_session_id # None
            /\ Count(run[j].calls, "destroy_session") = 1
            /\ run[j].calls[Len(run[j].calls)] = "destroy_session"

\* a run whose clone failed after its repository was created has returned
\* and its session is gone
C23_Witness ==
    \E j \in DOMAIN jobs :
        /\ CloneFailed(j) /\ run[j].created_new_repo
        /\ run[j].pc = "returned"
        /\ run[j].vm_session_id[1] \notin active_sessions

\* C24: when create_session fails the run writes initializing_vm and then
\* failed and nothing else, calls no repository operation and no
\* destroy_session, and its JobResult has no session id.
C24_ProvisioningFailure ==
    \A j \in DOMAIN jobs :
        (run[j].vm_session_id = None /\ run[j].pc \notin {"idle", "create_session"})
            => /\ run[j].pc = "returned"
               /\ run[j].stages = <<INITIALIZING_VM, FAILED>>
               /\ run[j].calls = <<"create_session">>
               /\ run[j].result # None
               /\ run[j].result[1].status = FAILED
               /\ run[j].result[1].vm_session_id = None
               /\ jobs[j].result = run[j].result
               /\ Status(j) = FAILED

\* a run for a new repository failed in provisioning: no session is active
C24_Witness ==
    \E j \in DOMAIN jobs :
        /\ run[j].pc = "returned" /\ run[j].vm_session_id = None
        /\ jobs[j].request.create_new_repo
        /\ active_sessions = {}

\* C25: destroy_session is awaited only after the terminal progress and the
\* JobResult are written, and its return, whether the teardown worked or
\* not, leaves the job (progress and result) and the result that
\* execute_job returns unchanged.
C25_TeardownAfterResult ==
    [][\A j \in DOMAIN jobs :
          /\ run'[j].pc = "destroy_session" =>
                /\ run'[j].result # None
                /\ jobs'[j].result = run'[j].result
                /\ jobs'[j].progress.status = run'[j].result[1].status
                /\ jobs'[j].progress.status \in {COMPLETED, FAILED}
          /\ (run[j].pc = "destroy_session" /\ run'[j].pc # "destroy_session") =>
                /\ run'[j].pc = "returned"
                /\ jobs'[j] = jobs[j]
                /\ run'[j].result = run[j].result]_vars

\* a completed run has returned and its teardown failed: the session is
\* still active
C25_Witness ==
    \E j \in DOMAIN jobs :
        /\ run[j].pc = "returned"
        /\ Status(j) = COMPLETED
        /\ run[j].vm_session_id # None
        /\ run[j].vm_session_id[1] \in active_sessions

\* the operations of VMService that take a session id
SessionOps == {"execute_command", "read_file", "write_file", "destroy_session"}

Errors == {"ValueError", "FileNotFoundError", "Exception"}

\* C26 as stated: execute_command, read_file, write_file and destroy_session
\* called with a session id that is not active (never created or already
\* destroyed) fail with an error.
C26_UnknownSessionRaises ==
    [][(last'.op \in SessionOps /\ last'.id \notin active_sessions)
          => last'.ret \in Errors]_vars

\* C26 amended: execute_command, read_file and write_file called with a
\* session id that is not active raise ValueError; destroy_session called
\* with such an id returns False and raises nothing.
C26_UnknownSessionRaisesDestroyFalse ==
    [][(last'.op \in SessionOps /\ last'.id \notin active_sessions)
          => IF last'.op = "destroy_session"
             THEN last'.ret = "False"
             ELSE last'.ret = "ValueError"]_vars

\* write_file was called on a destroyed session while another is active
C26_Witness ==
    /\ last.op = "write_file" /\ last.ret = "ValueError"
    /\ last.id \in created_sessions \ active_sessions
    /\ active_sessions # {}

\* C27: a destroy_session(s) that returns true removes the active session s;
\* a session leaves the active sessions in no other way and never comes
\* back; on a destroyed session get_session_status returns None,
\* execute_command, read_file and write_file raise and destroy_session
\* returns false.
C27_DestroyedSessionIsGone ==
    [][/\ (last'.op = "destroy_session" /\ last'.ret = "True") =>
             /\ last'.id \in active_sessions
             /\ active_sessions' = active_sessions \ {last'.id}
       /\ \A s \in active_sessions \ active_sessions' :
             last' = Call("destroy_session", s, "True", None)
       /\ \A s \in created_sessions \ active_sessions :
             /\ s \notin active_sessions'
             /\ last'.id = s =>
                   CASE last'.op = "get_session_status" -> last'.ret = "None"
                     [] last'.op = "destroy_session" -> last'.ret = "False"
                     [] last'.op \in {"execute_command", "read_file",
                                      "write_file"} -> last'.ret = "ValueError"
                     [] OTHER -> FALSE]_vars

\* destroy_session was called again on a destroyed session and returned
\* False
C27_Witness ==
    /\ last.op = "destroy_session" /\ last.ret = "False"
    /\ last.id \in created_sessions \ active_sessions

\* C28: create_job adds one job under an id that was not registered, with
\* status pending, percentage 0 and no result, and changes no other job; no
\* other operation adds a job; no operation removes a job or changes its
\* id; get_job returns the job registered under the id and None for an id
\* that was never registered; list_jobs holds every registered job exactly
\* once and nothing else.
C28_JobRegistry ==
    [][/\ DOMAIN jobs \subseteq DOMAIN jobs'
       /\ \A id \in DOMAIN jobs' : jobs'[id].job_id = id
       /\ \A id \in DOMAIN jobs' \ DOMAIN jobs :
             /\ last'.op = "create_job" /\ last'.id = id /\ last'.ret = "Job"
             /\ DOMAIN jobs' = DOMAIN jobs \cup {id}
             /\ jobs'[id].request = last'.req[1]
             /\ jobs'[id].progress.status = PENDING
             /\ jobs'[id].progress.progress_percentage = 0
             /\ jobs'[id].result = None
             /\ \A k \in DOMAIN jobs : jobs'[k] = jobs[k]
       /\ last'.op = "get_job" =>
             /\ jobs' = jobs
             /\ IF last'.id \in DOMAIN jobs
                THEN /\ last'.ret = "Job"
                     /\ last'.req = Some(jobs[last'.id])
                     /\ last'.req[1].job_id = last'.id
                ELSE last'.ret = "None" /\ last'.req = None
       /\ last'.op = "list_jobs" =>
             /\ jobs' = jobs
             /\ LET listed == last'.req[1]
                IN  /\ \A id \in DOMAIN jobs :
                          Cardinality({k \in DOMAIN listed :
                                          listed[k].job_id = id}) = 1
                    /\ \A k \in DOMAIN listed :
                          /\ listed[k].job_id \in DOMAIN jobs
                          /\ listed[k] = jobs[listed[k].job_id]]_vars

\* get_job returned the first job, completed, with its result, after a second
\* job was registered
C28_Witness ==
    /\ last.op = "get_job" /\ last.id = 1 /\ last.ret = "Job"
    /\ Len(jobs) = 2
    /\ last.req[1].progress.status = COMPLETED
    /\ last.req[1].result # None
    /\ jobs[2].progress.status = PENDING

\* n times the call op
Repeat(op, n) == [k \in 1..n |-> op]

RECURSIVE StepCalls(_, _)
\* the calls of the steps k.. of results: one write_file for each edit, and
\* a create_commit for a completed step with edits
StepCalls(results, k) ==
    IF k > Len(results) THEN <<>>
    ELSE Repeat("write_file", Len(results[k].edits))
         \o (IF results[k].status = "completed" /\ results[k].edits # <<>>
             THEN <<"create_commit">> ELSE <<>>)
         \o StepCalls(results, k + 1)

\* The calls of a whole run as the request and the outcomes of the external
\* calls determine them (the outcomes as the run recorded them: the session,
\* the created repository, the clone, the edits and the status of each
\* step, the commits), whatever the status of the job was during the run.
ExpectedCalls(j) ==
    LET r == run[j]
        req == jobs[j].request
        agent ==
            IF ~req.plan.valid THEN <<>>
            ELSE StepCalls(r.results, 1)
                 \o (IF /\ req.push_changes
                        /\ \A k \in 1..Len(r.results) :
                              r.results[k].status = "completed"
                        /\ r.commits # <<>>
                     THEN <<"push_branch">> ELSE <<>>)
        cloned ==
            <<"clone_repository">>
            \o (IF r.repo_path = None THEN <<>>
                ELSE (IF req.create_new_branch /\ ~r.created_new_repo
                      THEN <<"create_branch">> ELSE <<>>) \o agent)
        session ==
            IF req.create_new_repo
            THEN <<"create_repository">>
                 \o (IF r.created_new_repo THEN cloned ELSE <<>>)
            ELSE cloned
    IN  <<"create_session">>
        \o (IF r.vm_session_id = None THEN <<>>
            ELSE session \o <<"destroy_session">>)

\* C29: a cancel_job that succeeds changes nothing of the run (its position,
\* its locals, the calls it made), and a run that has returned has made
\* exactly the calls that its request and the outcomes of its external calls
\* determine, one step result for every step of a valid plan whose clone
\* succeeded, whether or not the job was cancelled during the run.
C29_CancelDoesNotChangeTheRun ==
    [][/\ (last'.op = "cancel_job" /\ last'.ret = "True") =>
             /\ run' = run
             /\ active_sessions' = active_sessions
       /\ \A j \in DOMAIN jobs' :
             run'[j].pc = "returned" =>
                \E r \in {run'[j]}, req \in {jobs'[j].request} :
                   /\ (r.repo_path # None /\ req.plan.valid) =>
                         Len(r.results) = Len(req.plan.steps)
                   /\ r.calls = ExpectedCalls(j)']_vars

\* a run that was cancelled after it wrote a file went on to the next step
\* of its plan and returned after that step failed
C29_Witness ==
    \E j \in DOMAIN jobs :
        /\ run[j].pc = "returned"
        /\ run[j].failed_from = Some(CANCELLED)
        /\ Len(run[j].results) = 2
        /\ run[j].results[1].status = "completed"
        /\ Called(j, "write_file") /\ Called(j, "create_commit")
        /\ Called(j, "destroy_session")

\* C30: the ImplementationPlan the agent was given has, during and after
\* execute_plan, the steps it had and the path and intent it had for every
\* FileChange when it was parsed from the request.
C30_PlanReadOnly ==
    \A j \in DOMAIN jobs :
        run[j].step >= 1 =>
            LET before == jobs[j].request.plan
                after == run[j].plan
            IN  /\ after.steps = before.steps
                /\ Len(after.files) = Len(before.files)
                /\ \A k \in 1..Len(before.files) :
                      /\ after.files[k].path = before.files[k].path
                      /\ after.files[k].intent = before.files[k].intent

\* the validations of step result r that succeeded
Passed(r) == {k \in 1..Len(r.validations) : r.validations[k].success}

\* C31: every FileEdit of a step result has a successful ValidationResult
\* for its path among the validations of that step, a step has no more edits
\* than successful validations, every write_file of the run is an edit of
\* a step result, and a file is in the working tree only if the clone
\* brought it or an edit wrote it: a candidate whose validation failed
\* wrote nothing.
C31_OnlyValidatedContentWritten ==
    \A j \in DOMAIN jobs :
        /\ \A n \in 1..Len(run[j].results) :
              LET r == run[j].results[n]
              IN  /\ \A e \in 1..Len(r.edits) :
                        \E k \in Passed(r) :
                           r.validations[k].file_path = r.edits[e].file_path
                  /\ Len(r.edits) <= Cardinality(Passed(r))
        /\ Count(run[j].calls, "write_file")
              = Cardinality(EditsOf(run[j].results))
        /\ run[j].tree \subseteq
              run[j].cloned \cup EditedPaths(run[j].results)

\* a step wrote one candidate and skipped another whose validation failed:
\* the file of the latter is not in the working tree
C31_Witness ==
    \E j \in DOMAIN jobs : \E n \in 1..Len(run[j].results) :
        LET r == run[j].results[n]
        IN  /\ r.edits # <<>>
            /\ \E k \in 1..Len(r.validations) :
                  /\ ~r.validations[k].success
                  /\ r.validations[k].file_path \notin run[j].tree

\* the step results of job j that are completed with at least one edit
Committable(j) ==
    {n \in 1..Len(run[j].results) :
        /\ run[j].results[n].status = "completed"
        /\ run[j].results[n].edits # <<>>}

\* C32: create_commit is called once for every step result that is
\* completed with at least one edit and for no other; a step result that is
\* skipped or failed has no commit id; every commit made belongs to a
\* completed step, no two to the same step; commits_created is no longer
\* than the number of completed steps.
C32_CommitOnlyForCompletedStep ==
    \A j \in DOMAIN jobs :
        LET r == run[j]
            completed == {n \in 1..Len(r.results) :
                            r.results[n].status = "completed"}
        IN  /\ Count(r.calls, "create_commit") = Cardinality(Committable(j))
            /\ \A n \in 1..Len(r.results) :
                  r.results[n].commit_sha # None => n \in Committable(j)
            /\ \A g \in 1..Len(r.git) :
                  /\ \E n \in Committable(j) :
                        r.results[n].step_number = r.git[g].step
                  /\ \A h \in 1..Len(r.git) :
                        r.git[h].step = r.git[g].step => h = g
            /\ Len(r.commits) <= Cardinality(completed)
            /\ Len(r.commits) = Len(r.git)
            /\ r.agent_result # None =>
                  Len(r.agent_result[1].commits_created)
                     <= Cardinality(completed)

\* a run of two steps: the first was skipped and has no commit, the second
\* is completed and has the only commit
C32_Witness ==
    \E j \in DOMAIN jobs :
        /\ Len(run[j].results) = 2
        /\ run[j].results[1].status = "skipped"
        /\ run[j].results[1].commit_sha = None
        /\ run[j].results[2].status = "completed"
        /\ Count(run[j].calls, "create_commit") = 1
        /\ Len(run[j].commits) = 1

\* C33: when push_branch has returned, it reported success if and only if
\* the push command ran and succeeded, whatever the lookup of the remote URL
\* gave, and a report of failure carries an error text.
C33_PushSuccessIffPushCommand ==
    \A j \in DOMAIN jobs :
        run[j].push_result # None =>
            /\ run[j].push_result[1] <=> (run[j].push_cmd = Some(TRUE))
            /\ ~run[j].push_result[1] => run[j].push_error # None

\* the session of the run of job k, if it is active
SessionsOf(k) ==
    IF run[k].vm_session_id = None THEN {}
    ELSE {run[k].vm_session_id[1]} \cap active_sessions

\* C34: a step of the service made for job j (a stage of its execute_job,
\* its cancel_job, its teardown, its creation) leaves the progress and the
\* result of every other job, the run of every other job and the active
\* session of every other job as they were.
C34_JobsDoNotInterfere ==
    [][\A k \in DOMAIN jobs :
          last'.id # k =>
             /\ jobs'[k] = jobs[k]
             /\ run'[k] = run[k]
             /\ SessionsOf(k) \subseteq active_sessions']_vars

\* two jobs were run concurrently: the first has returned and its session
\* is destroyed while the second is cancelled, still running, with its own
\* session active
C34_Witness ==
    /\ Len(jobs) = 2
    /\ run[1].pc = "returned" /\ run[1].vm_session_id # None
    /\ SessionsOf(1) = {}
    /\ Status(1) = COMPLETED
    /\ run[2].pc = "execute_step" /\ SessionsOf(2) # {}
    /\ Status(2) = CANCELLED
    /\ run[1].vm_session_id # run[2].vm_session_id

\* C35: for a job that was run at most once, a JobResult has the status of
\* the job's progress, which is completed or failed; success is true
\* exactly for completed; error_message and error_stage are set exactly for
\* failed.
C35_ResultAgreesWithProgress ==
    \A j \in DOMAIN jobs :
        (jobs[j].result # None /\ run[j].n <= 1) =>
            LET result == jobs[j].result[1]
            IN  /\ result.status = jobs[j].progress.status
                /\ result.status \in {COMPLETED, FAILED}
                /\ result.success <=> result.status = COMPLETED
                /\ result.error_message # None <=> result.status = FAILED
                /\ result.error_stage # None <=> result.status = FAILED

\* a job that was cancelled while its clone was awaited has a failed result
\* and the status failed; a later cancel_job was refused
C35_Witness ==
    \E j \in DOMAIN jobs :
        /\ jobs[j].result # None
        /\ jobs[j].result[1].status = FAILED
        /\ jobs[j].result[1].error_stage = Some("unknown")
        /\ Status(j) = FAILED
        /\ last = Call("cancel_job", j, "False", None)

\* C36: a JobResult with status failed reports no files changed, no
\* commits, no edits, no tokens and an empty commit_shas, also when the run
\* had written files and made commits.
C36_FailedResultReportsNothing ==
    \A j \in DOMAIN jobs :
        (run[j].result # None /\ run[j].result[1].status = FAILED) =>
            LET result == run[j].result[1]
            IN  /\ result.files_changed = 0
                /\ result.commits_created = 0
                /\ result.total_edits = 0
                /\ result.tokens_used = 0
                /\ result.commit_shas = <<>>
                /\ jobs[j].result = run[j].result

\* a run failed after a step of it had written a file and committed it
C36_Witness ==
    \E j \in DOMAIN jobs :
        /\ run[j].result # None /\ run[j].result[1].status = FAILED
        /\ run[j].commits # <<>>
        /\ Called(j, "write_file")
        /\ run[j].tokens > 0
        /\ run[j].result[1].commit_shas = <<>>

\* C37: once a run has committed or started a push, the branch it names
\* (for the push and in its result) is the branch checked out in the clone,
\* and a JobResult of a run that has a clone reports the branch checked out.
C37_BranchIsCheckedOutBranch ==
    \A j \in DOMAIN jobs :
        /\ (Called(j, "create_commit") \/ Called(j, "push_branch")) =>
              run[j].branch_name = run[j].head
        /\ (run[j].result # None /\ run[j].result[1].repo_path # None) =>
              run[j].result[1].branch_name = run[j].head

\* the step numbers the candidate lists are compared over
MaxStepNumber == 4

StartsWith(t, s) == Len(s) <= Len(t) /\ SubSeq(t, 1, Len(s)) = s

\* the number of FileChanges that come before FileChange i in ascending
\* priority order, ties in plan order
Ahead(files, i) == Cardinality({a \in 1..Len(files) : Before(files, a, i)})

\* C38: the candidate list of a step is a prefix of the candidate list of
\* every step with a greater step number, and extends that of every step with
\* a smaller one; a FileChange with three or more FileChanges ahead of it in
\* ascending priority order (ties in plan order) is a candidate of no step;
\* a FileChange taken by a step is taken again by every later step of the run.
C38_CandidatesGrowWithStepNumber ==
    \A j \in DOMAIN jobs : \A n \in 1..Len(run[j].results) :
        LET r == run[j].results[n]
            k == r.step_number
            c == r.files_for_step
            plan == run[j].plan
            late == {i \in 1..Len(plan.files) : Ahead(plan.files, i) >= 3}
        IN  /\ \A m \in 0..MaxStepNumber :
                  LET cm == GetFilesForStep(plan, m)
                  IN  /\ m < k => StartsWith(c, cm)
                      /\ m > k => StartsWith(cm, c)
                      /\ \A a \in 1..Len(cm) : cm[a] \notin late
            /\ \A a \in 1..Len(c) : c[a] \notin late
            /\ \A n2 \in 1..Len(run[j].results) :
                  LET r2 == run[j].results[n2]
                  IN  r2.step_number > k =>
                        /\ StartsWith(r2.files_for_step, c)
                        /\ \A a \in 1..Len(c) :
                              \E b \in 1..Len(r2.files_for_step) :
                                  r2.files_for_step[b] = c[a]

\* step 2 took three of four relevant files, the first two of them the
\* candidates of step 1, and the fourth relevant file has three ahead of it
C38_Witness ==
    \E j \in DOMAIN jobs : \E n \in 1..Len(run[j].results) :
        LET r == run[j].results[n]
            plan == run[j].plan
        IN  /\ r.step_number = 2
            /\ Len(r.files_for_step) = 3
            /\ Len(GetFilesForStep(plan, 1)) = 2
            /\ \E i \in 1..Len(plan.files) :
                  /\ plan.files[i].priority <= 2
                  /\ Ahead(plan.files, i) >= 3

\* two steps of one run took the same FileChange
C38_WitnessLaterStep ==
    \E j \in DOMAIN jobs : \E n \in 1..Len(run[j].results) :
        \E n2 \in 1..Len(run[j].results) :
            /\ run[j].results[n].step_number < run[j].results[n2].step_number
            /\ run[j].results[n].files_for_step # <<>>
            /\ run[j].results[n2].files_for_step =
                  run[j].results[n].files_for_step

\* C39: after execute_job has returned, the session the run created is not
\* among the provider's active sessions.
C39_NoSessionLeak ==
    \A j \in DOMAIN jobs :
        (run[j].pc = "returned" /\ run[j].vm_session_id # None) =>
            run[j].vm_session_id[1] \notin active_sessions

====
